---- MODULE Spec2Model ----
(***************************************************************************)
(* A model of the spin-wheel motion engine: the Wheel class (src/wheel.js), *)
(* its angle arithmetic (util.js, held in src/unnamed/part_000 lines 1-260) *)
(* and the Item geometry (item.js, src/unnamed/part_000 lines 262-563).     *)
(*                                                                         *)
(* Numbers.  The program computes in doubles.  The model computes in fixed *)
(* point: an angle is an integer number of millidegrees, a speed an integer *)
(* number of millidegrees per second, a resistance an integer number of     *)
(* millidegrees per second squared, a time an integer number of            *)
(* milliseconds.  A quotient that is not a whole number of units is rounded *)
(* (as a double rounds it).  Number.toFixed(9), which rounds a double to a  *)
(* grid coarser than the doubles themselves, is modelled as rounding to a   *)
(* grid coarser than the model's unit (FixQuantum units).                   *)
(***************************************************************************)
EXTENDS Integers, Sequences, FiniteSets, TLC

----------------------------------------------------------------------------
(* Program constants, in model units.                                      *)

\* 360 degrees (the literal 360 of util.js and wheel.js).
FullTurn == 360000
\* 180 degrees (diffAngle's offset).
HalfTurn == 180000
\* 90 degrees (getAngleFromCenter's shift of atan2's zero to north).
QuarterTurn == 90000
\* One second in milliseconds (the literal 1000 of animateRotation, dragEnd).
MsPerSecond == 1000
\* Constants.dragCapturePeriod, in ms.
dragCapturePeriod == 250
\* The cap on the drag history kept in debug mode (dragMove).
DebugDragEventsMax == 40
\* The grid Number(f.toFixed(9)) rounds to, in model units.
FixQuantum == 10
\* Defaults.wheel.rotationResistance (-35 degrees per second squared).
DefaultRotationResistance == -35000
\* Defaults.wheel.rotationSpeedMax (300 degrees per second).
DefaultRotationSpeedMax == 300000
\* Defaults.wheel.rotation, Defaults.wheel.pointerAngle, Defaults.item.weight.
DefaultRotation == 0
DefaultPointerAngle == 0
DefaultItemWeight == 1
\* The denominator of an easing function's value (its 1.0).
EaseOne == 1000

----------------------------------------------------------------------------
(* Bounds of the model.                                                    *)

\* performance.now() stops advancing here (ms).
MaxTime == 400
\* The longest drag history the model lets a drag build.
MaxDragEvents == 2
\* The number of calls of the wheel's methods in one behaviour.
MaxCalls == 3
\* performance.now() stops advancing here in the velocity-decay runs (ms).
DecayMaxTime == 600
\* The step by which performance.now() advances between two operations (ms).
TimeStep == 100

----------------------------------------------------------------------------
(* JavaScript arithmetic.                                                  *)

\* A null field is the empty tuple, a set field the one-element tuple.
Null == <<>>
Some(v) == <<v>>
Val(o) == o[1]

Abs(a) == IF a < 0 THEN -a ELSE a
Sign(a) == IF a < 0 THEN -1 ELSE IF a > 0 THEN 1 ELSE 0

\* The % operator: the remainder has the sign of the dividend.
JsMod(a, m) == IF a >= 0 THEN a % m ELSE -((-a) % m)

\* A quotient rounded toward zero to a whole number of units (b > 0).
TruncDiv(a, b) == IF a >= 0 THEN a \div b ELSE -((-a) \div b)

\* A quotient rounded to the nearest whole number of units (b > 0).
RoundDiv(a, b) == IF a >= 0 THEN (2 * a + b) \div (2 * b)
                            ELSE -((2 * (-a) + b) \div (2 * b))

Min(a, b) == IF a < b THEN a ELSE b
Max(a, b) == IF a > b THEN a ELSE b

----------------------------------------------------------------------------
(* util.js                                                                 *)

\* isAngleBetween that includes the end of the arc.
isAngleBetween_Closed(angle, arcStart, arcEnd) == IF arcStart < arcEnd THEN arcStart <= angle /\ angle <= arcEnd ELSE arcStart <= angle \/ angle <= arcEnd

isAngleBetween(angle, arcStart, arcEnd) ==
    IF arcStart < arcEnd
    THEN arcStart <= angle /\ angle < arcEnd
    ELSE arcStart <= angle \/ angle < arcEnd

\* addAngle without the replacement of 360 by 0.
addAngle_Unfixed(a, b) == IF a + b > 0 THEN JsMod(a + b, FullTurn) ELSE FullTurn + JsMod(a + b, FullTurn)

addAngle(a, b) ==
    LET sum == a + b
        result == IF sum > 0 THEN JsMod(sum, FullTurn)
                             ELSE FullTurn + JsMod(sum, FullTurn)
    IN  IF result = FullTurn THEN 0 ELSE result

diffAngle(a, b) ==
    LET offsetFrom180 == HalfTurn - b
        aWithOffset == addAngle(a, offsetFrom180)
    IN  HalfTurn - aWithOffset

\* Number(f.toFixed(9)): the nearest multiple of the grid, a tie away from 0.
fixFloat(f) == RoundDiv(f, FixQuantum) * FixQuantum

\* calcWheelRotationForTargetAngle that turns clockwise whatever the direction.
calcWheelRotationForTargetAngle_Clockwise(currentRotation, targetAngle, direction) ==
    LET angle1 == JsMod(JsMod(currentRotation, FullTurn) + targetAngle, FullTurn)
        angle2 == fixFloat(angle1)
        angle3 == JsMod(FullTurn - angle2, FullTurn)
        angle4 == angle3 * direction
    IN  currentRotation + angle4

calcWheelRotationForTargetAngle(currentRotation, targetAngle, direction) ==
    LET angle1 == JsMod(JsMod(currentRotation, FullTurn) + targetAngle, FullTurn)
        angle2 == fixFloat(angle1)
        angle3 == JsMod(IF direction = 1 THEN FullTurn - angle2
                                         ELSE FullTurn + angle2, FullTurn)
        angle4 == angle3 * direction
    IN  currentRotation + angle4

\* getAngle gives a point's polar angle in [0, 360); the model names a point
\* by that angle.  getAngleFromCenter turns it so that north is 0.
getAngleFromCenter(point) == JsMod(point + QuarterTurn, FullTurn)

\* limitSpeed that limits the speed in the clockwise direction only.
limitSpeed_Clockwise(speed, max) == Min(speed, max)

\* limitSpeed
limitSpeed(speed, max) == Max(Min(speed, max), -max)

----------------------------------------------------------------------------
(* The state of one Wheel.                                                 *)

VARIABLES
    items,                  \* _items: the weights of the items, in order
    pointerAngle,           \* _pointerAngle
    rotationResistance,     \* _rotationResistance
    rotationSpeedMax,       \* _rotationSpeedMax
    debug,                  \* _debug
    rotation,               \* _rotation
    currentIndex,           \* _currentIndex (0-based, -1 for none)
    rotationSpeed,          \* _rotationSpeed
    rotationDirection,      \* _rotationDirection
    lastSpinFrameTime,      \* _lastSpinFrameTime: Null, or Some(time)
    spinToTimeEnd,          \* _spinToTimeEnd: Null, or Some(time)
    spinToTimeStart,        \* _spinToTimeStart
    spinToStartRotation,    \* _spinToStartRotation
    spinToEndRotation,      \* _spinToEndRotation
    spinToEasingFunction,   \* _spinToEasingFunction (the name of one)
    dragEvents,             \* dragEvents: newest first
    isDragging,             \* isDragging
    isInitialising,         \* _isInitialising
    frameRequestId,         \* _frameRequestId: TRUE when a frame is requested
    clock,                  \* performance.now()
    raised,                 \* the notifications the last operation raised
    lastOp,                 \* the name of the last operation
    target,                 \* the item and spinToCenter given to the spinToItem
                            \* whose session is active, else Null
    calls,                  \* the number of calls made to the wheel's methods
    turn,                   \* Null, or the revolution being observed: its
                            \* direction, the rotation it started from and
                            \* the indexes onCurrentIndexChange has carried
    other,                  \* Null, or a second wheel of the page: the
                            \* contents of the array Defaults.wheel.items,
                            \* whether this wheel's _items (mine) and the
                            \* second wheel's (theirs) are that array, and
                            \* the state of the second wheel; or the drag
                            \* history and speed of a second wheel with
                            \* debug off that is given the same drag
    announced,              \* Null, or Some(whether onSpin has been raised
                            \* since the last onRest, or since construction)
    frame,                  \* Null, or the page's side of the animation
                            \* frames: the number of frame callbacks of this
                            \* wheel the browser holds (pending) and whether
                            \* the wheel is in its container (added)
    pointers                \* Null, or the pointer-event wiring: the number
                            \* of onPointerMove / onPointerUp closures that
                            \* are listeners of the canvas (listeners) and
                            \* the dragStart and dragEnd calls the handlers
                            \* have made, in order (log)

config == <<items, pointerAngle, rotationResistance, rotationSpeedMax, debug>>
spinToVars == <<spinToTimeStart, spinToStartRotation, spinToEndRotation,
                spinToEasingFunction>>
vars == <<items, pointerAngle, rotationResistance, rotationSpeedMax, debug,
          rotation, currentIndex, rotationSpeed, rotationDirection,
          lastSpinFrameTime, spinToTimeEnd, spinToTimeStart,
          spinToStartRotation, spinToEndRotation, spinToEasingFunction,
          dragEvents, isDragging, isInitialising, frameRequestId, clock,
          raised, lastOp, target, calls, turn, other, announced,
          frame, pointers>>

----------------------------------------------------------------------------
(* Slice layout and the current index.                                     *)

RECURSIVE SumWeights(_, _)
\* The sum of the first n weights of list w.
SumWeights(w, n) == IF n = 0 THEN 0 ELSE SumWeights(w, n - 1) + w[n]

\* getItemAngles that gives every item the same share of the turn.
ItemAnglesOf_Unweighted(w, initialRotation) == [i \in 1..Len(w) |-> [start |-> initialRotation + (i - 1) * (FullTurn \div Len(w)), end |-> initialRotation + i * (FullTurn \div Len(w))]]

\* getItemAngles: the list of [start, end] of the items of list w.
ItemAnglesOf(w, initialRotation) ==
    LET weightSum == SumWeights(w, Len(w))
        weightedItemAngle == RoundDiv(FullTurn, weightSum)
        startOf(i) == initialRotation + SumWeights(w, i - 1) * weightedItemAngle
        endOf(i) == IF Len(w) > 1 /\ i = Len(w)
                    THEN initialRotation + FullTurn
                    ELSE startOf(i) + w[i] * weightedItemAngle
    IN  [i \in 1..Len(w) |-> [start |-> startOf(i), end |-> endOf(i)]]

getItemAngles(initialRotation) == ItemAnglesOf(items, initialRotation)

\* refreshCurrentIndex: the index it leaves in _currentIndex, from index cur.
IndexAfterRefresh(w, pointer, cur, angles) ==
    LET hits == {i \in 1..Len(angles) :
                    isAngleBetween(pointer, JsMod(angles[i].start, FullTurn),
                                            JsMod(angles[i].end, FullTurn))}
        first == CHOOSE i \in hits : \A j \in hits : i <= j
        cur1 == IF Len(w) = 0 THEN -1 ELSE cur
    IN  IF hits = {} THEN cur1 ELSE first - 1

\* refreshCurrentIndex on the ranges of a list of total weight 0: 360 / 0 is
\* Infinity, so every start and end but the first start and the forced last
\* end is Infinity or NaN, NaN after % 360, and fails every comparison.
IndexWithoutTotal(w, pointer, cur, rot) ==
    LET hits == {i \in 1..Len(w) :
                    \/ i = 1 /\ JsMod(rot, FullTurn) <= pointer
                    \/ i = Len(w) /\ Len(w) > 1
                       /\ pointer < JsMod(rot + FullTurn, FullTurn)}
        first == CHOOSE i \in hits : \A j \in hits : i <= j
    IN  IF hits = {} THEN cur ELSE first - 1

\* refreshCurrentIndex(getItemAngles(rot)) for the list w.
LayoutIndex(w, pointer, cur, rot) ==
    IF Len(w) > 0 /\ SumWeights(w, Len(w)) = 0
    THEN IndexWithoutTotal(w, pointer, cur, rot)
    ELSE IndexAfterRefresh(w, pointer, cur, ItemAnglesOf(w, rot))

\* The index after the rotation setter has stored val.
IndexAt(val) == LayoutIndex(items, pointerAngle, currentIndex, val)

\* Item.getCenterAngle, Item.getStartAngle, Item.getEndAngle (i is 0-based).
getCenterAngle(i) ==
    LET angle == getItemAngles(0)[i + 1]
    IN  angle.start + TruncDiv(angle.end - angle.start, 2)
getStartAngle(i) == getItemAngles(0)[i + 1].start
getEndAngle(i) == getItemAngles(0)[i + 1].end

\* Item.getRandomAngle: getRandomFloat(start, end) is any value from start to
\* end, both included; the model draws one of these.
RandomAngles(i) ==
    LET s == getStartAngle(i)
        e == getEndAngle(i)
    IN  {s, s + TruncDiv(e - s, 3), e}

----------------------------------------------------------------------------
(* Notifications.                                                          *)

OnSpin(method) == [type |-> "spin", method |-> method]
OnRest(index, rot) == [type |-> "rest", currentIndex |-> index, rotation |-> rot]
OnCurrentIndexChange(index) == [type |-> "currentIndexChange", currentIndex |-> index]

\* raiseEvent_onCurrentIndexChange, as refreshCurrentIndex calls it when the
\* rotation setter has stored val.
IndexEvents(val) ==
    IF IndexAt(val) # currentIndex /\ Len(items) > 0 /\ ~isInitialising
    THEN <<OnCurrentIndexChange(IndexAt(val))>>
    ELSE <<>>

\* The same for refreshCurrentIndex taking the index of a list of n items
\* from old to new while _isInitialising is initialising.
IndexChangeEvents(n, old, new, initialising) ==
    IF new # old /\ n > 0 /\ ~initialising
    THEN <<OnCurrentIndexChange(new)>>
    ELSE <<>>

----------------------------------------------------------------------------
(* Easing functions: the value, in units of 1/EaseOne, at progress n/d.    *)

\* Math.sin(x * pi / 2) at x = 0, 0.1, ..., 1, in units of 1/EaseOne.
SinTable == <<0, 156, 309, 454, 588, 707, 809, 891, 951, 988, 1000>>

\* util.easeSinOut: the table, linearly interpolated.
easeSinOut(n, d) ==
    LET x == TruncDiv(n * EaseOne, d)
        k == x \div 100
        r == x % 100
    IN  IF k >= 10 THEN EaseOne
        ELSE SinTable[k + 1] + TruncDiv((SinTable[k + 2] - SinTable[k + 1]) * r, 100)

\* A caller's easing function t: the identity.
easeLinear(n, d) == TruncDiv(n * EaseOne, d)

\* A caller's easing function that overshoots its end value: 3t - 2t^2.
easeOvershoot(n, d) ==
    LET x == TruncDiv(n * EaseOne, d)
    IN  3 * x - TruncDiv(2 * x * x, EaseOne)

Ease(fn, n, d) ==
    CASE fn = "easeSinOut" -> easeSinOut(n, d)
      [] fn = "linear" -> easeLinear(n, d)
      [] fn = "overshoot" -> easeOvershoot(n, d)

----------------------------------------------------------------------------
(* The inputs the model draws from.                                        *)

\* props.items: lists of weights.
ItemLists == {<<1, 1, 2>>}
\* props.rotation
InitRotations == {0}
\* props.pointerAngle
PointerAngles == {90000}
\* props.rotationResistance
Resistances == {-200000}
\* props.rotationSpeedMax
SpeedMaxes == {DefaultRotationSpeedMax}
\* spin's rotationSpeed
SpinSpeeds == {0, 30000}
\* spinTo's rotation
SpinToRotations == {370000}
\* spinTo's and spinToItem's duration (ms)
Durations == {200}
\* spinTo's and spinToItem's easingFunction; "null" selects util.easeSinOut
EasingFunctions == {"null"}
\* spinToItem's numberOfRevolutions
Revolutions == {0}
\* spinToItem's direction
Directions == {1}
\* spinToItem's itemIndex
SpinToItems == {2}
\* The pointer positions of a drag, as polar angles (util.getAngle).
Points == {0, 10000}
\* The polar angle (util.getAngle) of the point {x: 0, y: 0}, the default of
\* getAngleFromCenter's parameter, for a wheel centred in a square canvas.
OriginPoint == 225000

\* The index the constructor leaves: init() assigns items, then rotation,
\* while _pointerAngle still holds Defaults.wheel.pointerAngle (0), and
\* assigns pointerAngle last.
ConstructedIndex(w, rot) ==
    LET afterItems == LayoutIndex(w, DefaultPointerAngle, -1, DefaultRotation)
    IN  LayoutIndex(w, DefaultPointerAngle, afterItems, rot)

\* What init() raises without _isInitialising set, when its items setter and
\* its rotation setter refresh the current index.
ConstructedEvents_NotInitialising(w, rot) ==
    LET afterItems == LayoutIndex(w, DefaultPointerAngle, -1, DefaultRotation)
        afterRotation == LayoutIndex(w, DefaultPointerAngle, afterItems, rot)
    IN  IndexChangeEvents(Len(w), -1, afterItems, FALSE)
        \o IndexChangeEvents(Len(w), afterItems, afterRotation, FALSE)

\* What init() raises: it sets _isInitialising before it assigns items and
\* rotation, whose setters refresh the current index.
ConstructedEvents(w, rot) ==
    LET afterItems == LayoutIndex(w, DefaultPointerAngle, -1, DefaultRotation)
        afterRotation == LayoutIndex(w, DefaultPointerAngle, afterItems, rot)
    IN  IndexChangeEvents(Len(w), -1, afterItems, TRUE)
        \o IndexChangeEvents(Len(w), afterItems, afterRotation, TRUE)

\* The wheel as the constructor leaves it.
ConstructedWheel(w, rot, pointer, resistance, speedMax, dbg) ==
    /\ items = w
    /\ pointerAngle = JsMod(pointer, FullTurn)
    /\ rotationResistance = resistance
    /\ rotationSpeedMax = speedMax
    /\ debug = dbg
    /\ rotation = rot
    /\ currentIndex = ConstructedIndex(w, rot)
    /\ rotationSpeed = 0
    /\ rotationDirection = 1
    /\ lastSpinFrameTime = Null
    /\ spinToTimeEnd = Null
    /\ spinToTimeStart = 0
    /\ spinToStartRotation = 0
    /\ spinToEndRotation = 0
    /\ spinToEasingFunction = "easeSinOut"
    /\ dragEvents = <<>>
    /\ isDragging = FALSE
    /\ isInitialising = TRUE
    /\ frameRequestId = TRUE
    /\ clock = 0
    /\ raised = ConstructedEvents(w, rot)
    /\ lastOp = "new"
    /\ target = Null
    /\ calls = 0

\* The same, with no revolution observed.
Constructed(w, rot, pointer, resistance, speedMax, dbg) ==
    /\ ConstructedWheel(w, rot, pointer, resistance, speedMax, dbg)
    /\ turn = Null
    /\ other = Null
    /\ announced = Null
    /\ frame = Null
    /\ pointers = Null

Init ==
    \E w \in ItemLists, rot \in InitRotations, pointer \in PointerAngles,
       resistance \in Resistances, speedMax \in SpeedMaxes :
        Constructed(w, rot, pointer, resistance, speedMax, FALSE)

----------------------------------------------------------------------------
(* The operations.                                                         *)

\* Time passes between two operations, up to the time limit.
AdvanceWithin(limit) ==
    /\ clock + TimeStep <= limit
    /\ clock' = clock + TimeStep
    /\ UNCHANGED <<config, rotation, currentIndex, rotationSpeed,
                   rotationDirection, lastSpinFrameTime, spinToTimeEnd,
                   spinToVars, dragEvents, isDragging, isInitialising,
                   frameRequestId, raised, lastOp, target, calls, turn,
                   other, announced, frame, pointers>>

Advance == AdvanceWithin(MaxTime)

\* The observed revolution after an operation that raised the notifications
\* events.
TurnAfter(events) ==
    LET changes == SelectSeq(events, LAMBDA e : e.type = "currentIndexChange")
    IN  IF turn = Null THEN Null
        ELSE Some([Val(turn) EXCEPT
                     !.seen = @ \o [i \in 1..Len(changes) |->
                                      changes[i].currentIndex]])

RECURSIVE NoticeFold(_, _)
\* Whether onSpin has been raised since the last onRest, after the
\* notifications events, given whether it had been before them.
NoticeFold(before, events) ==
    IF events = <<>> THEN before
    ELSE NoticeFold(IF Head(events).type = "spin" THEN TRUE
                    ELSE IF Head(events).type = "rest" THEN FALSE
                    ELSE before, Tail(events))

\* The same as the value of announced after an operation.
NoticeAfter(events) ==
    IF announced = Null THEN Null
    ELSE Some(NoticeFold(Val(announced), events))

\* The frame callbacks the browser holds after a call in which every
\* refresh() requests one.
FrameAfterCall_Unguarded == IF frame = Null THEN Null ELSE Some([Val(frame) EXCEPT !.pending = @ + IF frameRequestId' THEN 1 ELSE 0])

\* The frame callbacks the browser holds after a call of a method: refresh()
\* requests one where _frameRequestId is null.
FrameAfterCall ==
    IF frame = Null THEN Null
    ELSE Some([Val(frame) EXCEPT
                 !.pending = @ + IF ~frameRequestId /\ frameRequestId' THEN 1
                                                                       ELSE 0])

\* The same after draw(), the callback of one of them: it sets
\* _frameRequestId to null before the tick's refresh().
FrameAfterDraw ==
    IF frame = Null THEN Null
    ELSE Some([Val(frame) EXCEPT
                 !.pending = (@ - 1) + IF frameRequestId' THEN 1 ELSE 0])

\* getRotationSpeedPlusDrag that lets the speed pass 0.
getRotationSpeedPlusDrag_Crossing(delta) == rotationSpeed + TruncDiv(rotationResistance * delta, MsPerSecond) * rotationDirection

\* getRotationSpeedPlusDrag
getRotationSpeedPlusDrag(delta) ==
    LET newRotationSpeed ==
            rotationSpeed
            + TruncDiv(rotationResistance * delta, MsPerSecond) * rotationDirection
    IN  IF \/ (rotationDirection = 1 /\ newRotationSpeed < 0)
           \/ (rotationDirection = -1 /\ newRotationSpeed >= 0)
        THEN 0
        ELSE newRotationSpeed

\* The end of a spinTo() session that raises onRest before the rotation is
\* set to the end rotation.
AnimateSpinToEnd_RestFirst(now) ==
    /\ rotation' = spinToEndRotation
    /\ currentIndex' = IndexAt(spinToEndRotation)
    /\ spinToTimeEnd' = Null
    /\ raised' = <<OnRest(currentIndex, rotation)>>
                 \o IndexEvents(spinToEndRotation)
    /\ frameRequestId' = TRUE
    /\ UNCHANGED <<rotationSpeed, rotationDirection, lastSpinFrameTime>>

\* The end of a spinTo() session that leaves the rotation where the last
\* tick put it.
AnimateSpinToEnd_KeepRotation(now) ==
    /\ spinToTimeEnd' = Null
    /\ raised' = <<OnRest(currentIndex, rotation)>>
    /\ frameRequestId' = TRUE
    /\ UNCHANGED <<rotation, currentIndex, rotationSpeed, rotationDirection,
                   lastSpinFrameTime>>

\* animateRotation, the branch for spinTo(), at or after the end time.
AnimateSpinToEnd(now) ==
    /\ rotation' = spinToEndRotation
    /\ currentIndex' = IndexAt(spinToEndRotation)
    /\ spinToTimeEnd' = Null
    /\ raised' = IndexEvents(spinToEndRotation)
                 \o <<OnRest(IndexAt(spinToEndRotation), spinToEndRotation)>>
    /\ frameRequestId' = TRUE
    /\ UNCHANGED <<rotationSpeed, rotationDirection, lastSpinFrameTime>>

\* A tick of a spinTo() session that measures the eased distance from the
\* end rotation.
AnimateSpinToStep_FromEnd(now) ==
    LET duration == Val(spinToTimeEnd) - spinToTimeStart
        elapsed == now - spinToTimeStart
        distance == spinToEndRotation - spinToStartRotation
        eased == IF elapsed < 0 THEN Ease(spinToEasingFunction, 0, 1)
                 ELSE Ease(spinToEasingFunction, elapsed, duration)
        val == spinToEndRotation + TruncDiv(distance * eased, EaseOne)
    IN  /\ rotation' = val
        /\ currentIndex' = IndexAt(val)
        /\ raised' = IndexEvents(val)
        /\ frameRequestId' = TRUE
        /\ UNCHANGED <<rotationSpeed, rotationDirection, lastSpinFrameTime,
                       spinToTimeEnd>>

\* animateRotation, the branch for spinTo(), before the end time.
AnimateSpinToStep(now) ==
    LET duration == Val(spinToTimeEnd) - spinToTimeStart
        elapsed == now - spinToTimeStart
        distance == spinToEndRotation - spinToStartRotation
        eased == IF elapsed < 0 THEN Ease(spinToEasingFunction, 0, 1)
                 ELSE Ease(spinToEasingFunction, elapsed, duration)
        val == spinToStartRotation + TruncDiv(distance * eased, EaseOne)
    IN  /\ rotation' = val
        /\ currentIndex' = IndexAt(val)
        /\ raised' = IndexEvents(val)
        /\ frameRequestId' = TRUE
        /\ UNCHANGED <<rotationSpeed, rotationDirection, lastSpinFrameTime,
                       spinToTimeEnd>>

\* animateRotation, the branch for spin().
AnimateSpin(now) ==
    LET delta == now - Val(lastSpinFrameTime)
        val == rotation
               + JsMod(TruncDiv(delta * rotationSpeed, MsPerSecond), FullTurn)
        speed == getRotationSpeedPlusDrag(delta)
    IN  /\ frameRequestId' = TRUE
        /\ UNCHANGED <<rotationDirection, spinToTimeEnd>>
        /\ IF delta > 0
           THEN /\ rotation' = val
                /\ currentIndex' = IndexAt(val)
                /\ rotationSpeed' = speed
                /\ raised' = IndexEvents(val)
                             \o IF speed = 0 THEN <<OnRest(IndexAt(val), val)>>
                                             ELSE <<>>
                /\ lastSpinFrameTime' = IF speed = 0 THEN Null ELSE Some(now)
           ELSE /\ raised' = <<>>
                /\ UNCHANGED <<rotation, currentIndex, rotationSpeed,
                               lastSpinFrameTime>>

\* animateRotation that asks for a frame when no session is active.
animateRotation_IdleRefresh(now) == IF spinToTimeEnd # Null THEN (IF now >= Val(spinToTimeEnd) THEN AnimateSpinToEnd(now) ELSE AnimateSpinToStep(now)) ELSE IF lastSpinFrameTime # Null THEN AnimateSpin(now) ELSE raised' = <<>> /\ frameRequestId' = TRUE /\ UNCHANGED <<rotation, currentIndex, rotationSpeed, rotationDirection, lastSpinFrameTime, spinToTimeEnd>>

\* animateRotation
animateRotation(now) ==
    IF spinToTimeEnd # Null
    THEN IF now >= Val(spinToTimeEnd) THEN AnimateSpinToEnd(now)
                                      ELSE AnimateSpinToStep(now)
    ELSE IF lastSpinFrameTime # Null
    THEN AnimateSpin(now)
    ELSE /\ raised' = <<>>
         /\ frameRequestId' = FALSE
         /\ UNCHANGED <<rotation, currentIndex, rotationSpeed,
                        rotationDirection, lastSpinFrameTime, spinToTimeEnd>>

\* The time stamps a frame callback may carry: the time of the frame, which
\* is not later than a performance.now() read after it.
FrameTimes == {t \in {clock - TimeStep, clock} : t >= 0}

\* draw(now), the requested animation frame: one animation tick.
Draw(now) ==
    /\ frameRequestId
    /\ animateRotation(now)
    /\ isInitialising' = FALSE
    /\ lastOp' = "draw"
    /\ target' = IF spinToTimeEnd' = Null THEN Null ELSE target
    /\ turn' = TurnAfter(raised')
    /\ announced' = NoticeAfter(raised')
    /\ frame' = FrameAfterDraw
    /\ UNCHANGED pointers
    /\ UNCHANGED <<config, spinToVars, dragEvents, isDragging, clock, calls,
                   other>>


\* stop() that ends the sessions and leaves the speed as it is.
Stop_KeepingSpeed ==
    /\ spinToTimeEnd' = Null
    /\ lastSpinFrameTime' = Null
    /\ raised' = <<>>
    /\ lastOp' = "stop"
    /\ target' = Null
    /\ UNCHANGED <<config, rotation, currentIndex, rotationSpeed,
                   rotationDirection, spinToVars, dragEvents, isDragging,
                   isInitialising, frameRequestId, clock>>

\* stop()
Stop ==
    /\ spinToTimeEnd' = Null
    /\ rotationSpeed' = 0
    /\ lastSpinFrameTime' = Null
    /\ raised' = <<>>
    /\ lastOp' = "stop"
    /\ target' = Null
    /\ UNCHANGED <<config, rotation, currentIndex, rotationDirection,
                   spinToVars, dragEvents, isDragging, isInitialising,
                   frameRequestId, clock>>

\* beginSpin without its stop(): a spinTo() session survives it.
beginSpin_WithoutStop(speed, spinMethod) ==
    LET limited == limitSpeed(speed, rotationSpeedMax)
    IN  /\ spinToTimeEnd' = spinToTimeEnd
        /\ rotationSpeed' = limited
        /\ lastSpinFrameTime' = Some(clock)
        /\ rotationDirection' = IF limited >= 0 THEN 1 ELSE -1
        /\ raised' = IF limited # 0 THEN <<OnSpin(spinMethod)>> ELSE <<>>
        /\ frameRequestId' = TRUE
        /\ target' = IF spinToTimeEnd = Null THEN Null ELSE target

\* beginSpin(speed, spinMethod): stop(), then the velocity-decay session.
beginSpin(speed, spinMethod) ==
    LET limited == limitSpeed(speed, rotationSpeedMax)
    IN  /\ spinToTimeEnd' = Null
        /\ rotationSpeed' = limited
        /\ lastSpinFrameTime' = Some(clock)
        /\ rotationDirection' = IF limited >= 0 THEN 1 ELSE -1
        /\ raised' = IF limited # 0 THEN <<OnSpin(spinMethod)>> ELSE <<>>
        /\ frameRequestId' = TRUE
        /\ target' = Null

\* spin(rotationSpeed)
Spin(speed) ==
    /\ dragEvents' = <<>>
    /\ beginSpin(speed, "spin")
    /\ lastOp' = "spin"
    /\ UNCHANGED <<config, rotation, currentIndex, spinToVars, isDragging,
                   isInitialising, clock>>

\* animate(newRotation, duration, easingFunction)
animate(newRotation, duration, easingFunction) ==
    /\ spinToStartRotation' = rotation
    /\ spinToEndRotation' = newRotation
    /\ spinToTimeStart' = clock
    /\ spinToTimeEnd' = Some(clock + duration)
    /\ spinToEasingFunction' =
           IF easingFunction = "null" THEN "easeSinOut" ELSE easingFunction
    /\ frameRequestId' = TRUE

\* spinTo(rotation, duration, easingFunction)
SpinTo(newRotation, duration, easingFunction) ==
    /\ rotationSpeed' = 0
    /\ lastSpinFrameTime' = Null
    /\ dragEvents' = <<>>
    /\ animate(newRotation, duration, easingFunction)
    /\ raised' = <<OnSpin("spinto")>>
    /\ lastOp' = "spinTo"
    /\ target' = Null
    /\ UNCHANGED <<config, rotation, currentIndex, rotationDirection,
                   isDragging, isInitialising, clock>>

\* The rotation spinToItem aims at when it leaves out the revolutions.
SpinToItemRotation_NoRevolutions(itemAngle, numberOfRevolutions, direction) == calcWheelRotationForTargetAngle(rotation, itemAngle - pointerAngle, direction)

\* The rotation spinToItem aims at, for the angle itemAngle of the item.
SpinToItemRotation(itemAngle, numberOfRevolutions, direction) ==
    calcWheelRotationForTargetAngle(rotation, itemAngle - pointerAngle, direction)
    + (numberOfRevolutions * FullTurn) * direction

\* spinToItem(itemIndex, duration, spinToCenter, numberOfRevolutions,
\* direction, easingFunction); itemAngle is the angle getCenterAngle() or
\* getRandomAngle() returned.
SpinToItem(itemIndex, duration, spinToCenter, numberOfRevolutions, direction,
           easingFunction, itemAngle) ==
    /\ itemIndex \in 0..(Len(items) - 1)
    /\ itemAngle \in IF spinToCenter THEN {getCenterAngle(itemIndex)}
                                     ELSE RandomAngles(itemIndex)
    /\ rotationSpeed' = 0
    /\ lastSpinFrameTime' = Null
    /\ dragEvents' = <<>>
    /\ animate(SpinToItemRotation(itemAngle, numberOfRevolutions, direction),
               duration, easingFunction)
    /\ raised' = <<OnSpin("spintoitem")>>
    /\ lastOp' = "spinToItem"
    /\ target' = Some([item |-> itemIndex, center |-> spinToCenter])
    /\ UNCHANGED <<config, rotation, currentIndex, rotationDirection,
                   isDragging, isInitialising, clock>>

\* dragStart(point) that puts its entry in front of the history it finds.
DragStart_KeepingHistory(point) == isDragging' = TRUE /\ spinToTimeEnd' = Null /\ rotationSpeed' = 0 /\ lastSpinFrameTime' = Null /\ dragEvents' = <<[distance |-> 0, point |-> point, now |-> clock]>> \o dragEvents /\ raised' = <<>> /\ lastOp' = "dragStart" /\ target' = Null /\ UNCHANGED <<config, rotation, currentIndex, rotationDirection, spinToVars, isInitialising, frameRequestId, clock>>

\* dragStart(point)
DragStart(point) ==
    /\ isDragging' = TRUE
    /\ spinToTimeEnd' = Null
    /\ rotationSpeed' = 0
    /\ lastSpinFrameTime' = Null
    /\ dragEvents' = <<[distance |-> 0, point |-> point, now |-> clock]>>
    /\ raised' = <<>>
    /\ lastOp' = "dragStart"
    /\ target' = Null
    /\ UNCHANGED <<config, rotation, currentIndex, rotationDirection,
                   spinToVars, isInitialising, frameRequestId, clock>>

\* The drag history after dragMove has put event e in front and, in debug
\* mode, dropped the oldest event of a history of 40 or more.
DragEventsAfterMove(e) ==
    LET unshifted == <<e>> \o dragEvents
    IN  IF debug /\ Len(unshifted) >= DebugDragEventsMax
        THEN SubSeq(unshifted, 1, Len(unshifted) - 1)
        ELSE unshifted

\* dragMove(point), while the drag history has fewer than limit events
DragMoveWithin(point, limit) ==
    LET a == getAngleFromCenter(point)
        lastDragPoint == IF dragEvents = <<>> THEN OriginPoint
                                              ELSE dragEvents[1].point
        lastAngle == getAngleFromCenter(lastDragPoint)
        angleSinceLastMove == diffAngle(lastAngle, a)
        val == rotation + angleSinceLastMove
    IN  /\ isDragging
        /\ Len(dragEvents) < limit
        /\ dragEvents' = DragEventsAfterMove(
               [distance |-> angleSinceLastMove, point |-> point, now |-> clock])
        /\ rotation' = val
        /\ currentIndex' = IndexAt(val)
        /\ raised' = IndexEvents(val)
        /\ frameRequestId' = TRUE
        /\ lastOp' = "dragMove"
        /\ UNCHANGED <<config, rotationSpeed, rotationDirection,
                       lastSpinFrameTime, spinToTimeEnd, spinToVars,
                       isDragging, isInitialising, clock, target>>

DragMove(point) == DragMoveWithin(point, MaxDragEvents)

\* isDragEventTooOld(now, event)
isDragEventTooOld(now, event) == (now - event.now) > dragCapturePeriod

\* dragEnd that cuts nothing from the history.
FreshCount_KeepingAll(now) == Len(dragEvents)

\* The number of events at the front of the history that dragEnd keeps: those
\* before the first one that is too old.
FreshCount(now) ==
    LET stale == {i \in 1..Len(dragEvents) : isDragEventTooOld(now, dragEvents[i])}
    IN  IF stale = {} THEN Len(dragEvents)
        ELSE (CHOOSE i \in stale : \A j \in stale : i <= j) - 1

RECURSIVE SumDistance(_, _)
\* The sum of the distances of the first n events of history h.
SumDistance(h, n) == IF n = 0 THEN 0 ELSE SumDistance(h, n - 1) + h[n].distance

\* dragEnd() that begins a spin whatever the distance.
DragEnd_AlwaysSpins == isDragging /\ isDragging' = FALSE /\ dragEvents' = SubSeq(dragEvents, 1, FreshCount(clock)) /\ lastOp' = "dragEnd" /\ UNCHANGED <<config, rotation, currentIndex, spinToVars, isInitialising, clock>> /\ beginSpin(TruncDiv(SumDistance(dragEvents, FreshCount(clock)) * MsPerSecond, dragCapturePeriod), "interact")

\* dragEnd()
DragEnd ==
    LET now == clock
        kept == FreshCount(now)
        dragDistance == SumDistance(dragEvents, kept)
        trimmed == kept < Len(dragEvents)
    IN  /\ isDragging
        /\ isDragging' = FALSE
        /\ dragEvents' = SubSeq(dragEvents, 1, kept)
        /\ lastOp' = "dragEnd"
        /\ UNCHANGED <<config, rotation, currentIndex, spinToVars,
                       isInitialising, clock>>
        /\ IF dragDistance = 0
           THEN /\ frameRequestId' = (frameRequestId \/ (trimmed /\ debug))
                /\ raised' = <<>>
                /\ UNCHANGED <<rotationSpeed, rotationDirection,
                               lastSpinFrameTime, spinToTimeEnd, target>>
           ELSE beginSpin(TruncDiv(dragDistance * MsPerSecond, dragCapturePeriod),
                          "interact")

\* A value handed to a property: a value of the property's type, undefined,
\* or a value of another type.
Value(v) == [kind |-> "value", v |-> v]
Undefined == [kind |-> "undefined", v |-> 0]
Invalid == [kind |-> "invalid", v |-> 0]

\* util.setProp: Some(the value to store), or Null where it throws.
setProp(val, isValid, defaultValue, result) ==
    IF isValid THEN Some(result)
    ELSE IF val.kind = "undefined" THEN Some(defaultValue)
    ELSE Null

\* A setter that throws: nothing is assigned.
Throws ==
    /\ lastOp' = "throw"
    /\ raised' = <<>>
    /\ UNCHANGED <<config, rotation, currentIndex, rotationSpeed,
                   rotationDirection, lastSpinFrameTime, spinToTimeEnd,
                   spinToVars, dragEvents, isDragging, isInitialising,
                   frameRequestId, clock, target>>

\* set rotation(val)
SetRotation(val) ==
    LET r == setProp(val, val.kind = "value", DefaultRotation, val.v)
    IN  IF r = Null THEN Throws
        ELSE /\ rotation' = Val(r)
             /\ currentIndex' = IndexAt(Val(r))
             /\ raised' = IndexEvents(Val(r))
             /\ frameRequestId' = TRUE
             /\ lastOp' = "rotation"
             /\ UNCHANGED <<config, rotationSpeed, rotationDirection,
                            lastSpinFrameTime, spinToTimeEnd, spinToVars,
                            dragEvents, isDragging, isInitialising, clock,
                            target>>

\* set pointerAngle(val)
SetPointerAngle(val) ==
    LET r == setProp(val, val.kind = "value" /\ val.v >= 0,
                     DefaultPointerAngle, JsMod(val.v, FullTurn))
    IN  IF r = Null THEN Throws
        ELSE /\ pointerAngle' = Val(r)
             /\ frameRequestId' = (debug \/ frameRequestId)
             /\ raised' = <<>>
             /\ lastOp' = "pointerAngle"
             /\ UNCHANGED <<items, rotationResistance, rotationSpeedMax,
                            debug, rotation, currentIndex, rotationSpeed,
                            rotationDirection, lastSpinFrameTime,
                            spinToTimeEnd, spinToVars, dragEvents, isDragging,
                            isInitialising, clock, target>>

\* set rotationResistance(val)
SetRotationResistance(val) ==
    LET r == setProp(val, val.kind = "value", DefaultRotationResistance, val.v)
    IN  IF r = Null THEN Throws
        ELSE /\ rotationResistance' = Val(r)
             /\ raised' = <<>>
             /\ lastOp' = "rotationResistance"
             /\ UNCHANGED <<items, pointerAngle, rotationSpeedMax, debug,
                            rotation, currentIndex, rotationSpeed,
                            rotationDirection, lastSpinFrameTime,
                            spinToTimeEnd, spinToVars, dragEvents, isDragging,
                            isInitialising, frameRequestId, clock, target>>

\* set rotationSpeedMax(val)
SetRotationSpeedMax(val) ==
    LET r == setProp(val, val.kind = "value" /\ val.v >= 0,
                     DefaultRotationSpeedMax, val.v)
    IN  IF r = Null THEN Throws
        ELSE /\ rotationSpeedMax' = Val(r)
             /\ raised' = <<>>
             /\ lastOp' = "rotationSpeedMax"
             /\ UNCHANGED <<items, pointerAngle, rotationResistance, debug,
                            rotation, currentIndex, rotationSpeed,
                            rotationDirection, lastSpinFrameTime,
                            spinToTimeEnd, spinToVars, dragEvents, isDragging,
                            isInitialising, frameRequestId, clock, target>>

\* set weight(val) of an Item: the weight it stores.
ItemWeight(val) == IF val.kind = "value" THEN val.v ELSE DefaultItemWeight

\* The weights of the Items the items setter makes of the array a.
ItemWeights(a) == [i \in 1..Len(a) |-> ItemWeight(a[i])]

\* set items(val): val.v is the array of the weights handed in, and
\* defaultItems the contents of the array Defaults.wheel.items.
SetItemsFrom(val, defaultItems) ==
    LET r == setProp(val, val.kind = "value", defaultItems,
                     IF val.kind = "value" THEN ItemWeights(val.v) ELSE <<>>)
        w == Val(r)
        index == LayoutIndex(w, pointerAngle, currentIndex, rotation)
    IN  IF r = Null THEN Throws
        ELSE /\ items' = w
             /\ currentIndex' = index
             /\ raised' = IndexChangeEvents(Len(w), currentIndex, index,
                                            isInitialising)
             /\ frameRequestId' = TRUE
             /\ lastOp' = "items"
             /\ UNCHANGED <<pointerAngle, rotationResistance,
                            rotationSpeedMax, debug, rotation, rotationSpeed,
                            rotationDirection, lastSpinFrameTime,
                            spinToTimeEnd, spinToVars, dragEvents, isDragging,
                            isInitialising, clock, target>>

\* set items(val) while nothing has changed Defaults.wheel.items.
SetItems(val) == SetItemsFrom(val, <<>>)

\* wheel.items.push({weight: w}): the array the getter returns is _items
\* itself, changed in place; nothing is refreshed.
PushItem(w) ==
    /\ items' = Append(items, w)
    /\ raised' = <<>>
    /\ lastOp' = "push"
    /\ UNCHANGED <<pointerAngle, rotationResistance, rotationSpeedMax, debug,
                   rotation, currentIndex, rotationSpeed, rotationDirection,
                   lastSpinFrameTime, spinToTimeEnd, spinToVars, dragEvents,
                   isDragging, isInitialising, frameRequestId, clock, target>>

\* spin(rotationSpeed) with any argument: an omitted one is 0, one that is
\* not a number throws before anything is done.
SpinWith(val) ==
    IF val.kind = "value" THEN Spin(val.v)
    ELSE IF val.kind = "undefined" THEN Spin(0)
    ELSE Throws

\* spinTo(rotation, duration, easingFunction) with any rotation and duration.
SpinToWith(rot, dur, easingFunction) ==
    IF rot.kind = "invalid" \/ dur.kind = "invalid" THEN Throws
    ELSE SpinTo(IF rot.kind = "value" THEN rot.v ELSE 0,
                IF dur.kind = "value" THEN dur.v ELSE 0, easingFunction)

\* spinToItem(itemIndex, ...) for an index with no item: stop() and the
\* clearing of the drag history are done when items[itemIndex] turns out to
\* be undefined and the call ends in a TypeError.
SpinToItemMissing(itemIndex) ==
    /\ itemIndex \notin 0..(Len(items) - 1)
    /\ spinToTimeEnd' = Null
    /\ rotationSpeed' = 0
    /\ lastSpinFrameTime' = Null
    /\ dragEvents' = <<>>
    /\ raised' = <<>>
    /\ lastOp' = "throw"
    /\ target' = Null
    /\ UNCHANGED <<config, rotation, currentIndex, rotationDirection,
                   spinToVars, isDragging, isInitialising, frameRequestId,
                   clock>>

\* A call of one of the wheel's methods.
CallWithin(op, limit) ==
    /\ calls < limit
    /\ calls' = calls + 1
    /\ op
    /\ turn' = TurnAfter(raised')
    /\ announced' = NoticeAfter(raised')
    /\ frame' = FrameAfterCall
    /\ UNCHANGED pointers
    /\ UNCHANGED other

Call(op) == CallWithin(op, MaxCalls)

Next ==
    \/ Advance
    \/ \E now \in FrameTimes : Draw(now)
    \/ Call(Stop)
    \/ \E speed \in SpinSpeeds : Call(Spin(speed))
    \/ \E r \in SpinToRotations, d \in Durations, e \in EasingFunctions :
           Call(SpinTo(r, d, e))
    \/ \E i \in SpinToItems, d \in Durations, c \in BOOLEAN,
          n \in Revolutions, dir \in Directions, e \in EasingFunctions :
           \E a \in RandomAngles(i) \cup {getCenterAngle(i)} :
               Call(SpinToItem(i, d, c, n, dir, e, a))
    \/ \E p \in Points : Call(DragStart(p))
    \/ \E p \in Points : Call(DragMove(p))
    \/ Call(DragEnd)

Spec == Init /\ [][Next]_vars

----------------------------------------------------------------------------
(* Vocabulary of the claims.                                               *)

\* A timed-ease session (spinTo, spinToItem) is active.
SpinToActive == spinToTimeEnd # Null
\* A velocity-decay session (spin, drag release) is active.
SpinActive == lastSpinFrameTime # Null
Idle == ~SpinToActive /\ ~SpinActive

\* The same three, of the state a step leads to.
SpinToActiveNext == spinToTimeEnd' # Null
SpinActiveNext == lastSpinFrameTime' # Null
IdleNext == ~SpinToActiveNext /\ ~SpinActiveNext

\* The step is a call of a method of the wheel; the step is an animation tick.
IsCall == calls' = calls + 1
IsTick == calls' = calls /\ clock' = clock /\ lastOp' = "draw"

\* The notifications of one type among those raised.
Raised(seq, type) == SelectSeq(seq, LAMBDA e : e.type = type)

----------------------------------------------------------------------------
(* C1: at most one spin session is active at a time: a timed-ease session  *)
(* and a velocity-decay session are never active together, and a call that *)
(* starts a session of one kind leaves the other kind inactive.            *)
C1_OneSession ==
    /\ ~(SpinToActive /\ SpinActive)
    /\ lastOp \in {"spinTo", "spinToItem"} => SpinToActive /\ ~SpinActive
    /\ lastOp = "spin" => SpinActive /\ ~SpinToActive

\* spin() has just been called at the very time a spinTo() session started,
\* which no tick can have ended: the spin took the wheel from that session.
C1_Witness ==
    /\ calls = 2
    /\ lastOp = "spin"
    /\ SpinActive
    /\ rotationSpeed # 0
    /\ spinToEndRotation = 370000
    /\ spinToTimeStart = clock

(* C2: from dragStart until the matching dragEnd no spin session is active *)
(* (so that dragMove alone mutates rotation), whatever calls of spin,      *)
(* spinTo and spinToItem are interleaved with the drag.                    *)
C2_NoSessionWhileDragging == isDragging => Idle

(* C3: stop() leaves the wheel Idle with speed 0, leaves rotation, current *)
(* index and items unchanged and raises nothing; a tick of an Idle wheel    *)
(* leaves rotation unchanged; a second stop() changes nothing.             *)
C3_Stop ==
    [][ /\ (IsCall /\ lastOp' = "stop") =>
              /\ IdleNext
              /\ rotationSpeed' = 0
              /\ rotation' = rotation
              /\ currentIndex' = currentIndex
              /\ items' = items
              /\ raised' = <<>>
        /\ (IsTick /\ Idle) => rotation' = rotation /\ IdleNext
        /\ (IsCall /\ lastOp' = "stop" /\ lastOp = "stop") =>
              UNCHANGED <<config, rotation, currentIndex, rotationSpeed,
                          rotationDirection, lastSpinFrameTime, spinToTimeEnd,
                          spinToVars, dragEvents, isDragging, isInitialising,
                          frameRequestId, clock, raised>>
      ]_vars

\* stop() has just been called at the very time a spinTo() session started:
\* it ended an active session.
C3_Witness ==
    /\ calls = 2
    /\ lastOp = "stop"
    /\ Idle
    /\ spinToEndRotation = 370000
    /\ spinToTimeStart = clock
    /\ rotation # spinToEndRotation

(* C4: the tick at which a session becomes Idle raises onRest exactly once, *)
(* carrying the current index and the rotation of the state it leaves; no   *)
(* other step raises onRest: not a call (stop, dragStart, the start of      *)
(* another session), not a tick of an Idle wheel, not a tick that leaves    *)
(* the session active.                                                      *)
C4_OnRest ==
    [][ /\ (IsTick /\ ~Idle /\ IdleNext) =>
              Raised(raised', "rest") = <<OnRest(currentIndex', rotation')>>
        /\ IsCall => Raised(raised', "rest") = <<>>
        /\ (IsTick /\ (Idle \/ ~IdleNext)) => Raised(raised', "rest") = <<>>
      ]_vars

\* A tick has just ended a spinTo() session at its target and raised onRest.
C4_Witness ==
    /\ lastOp = "draw"
    /\ Idle
    /\ rotation = 370000
    /\ Raised(raised, "rest") = <<OnRest(currentIndex, rotation)>>

(* C5: every start of a spin session raises onSpin exactly once, tagged    *)
(* 'spin' by spin(), 'spinto' by spinTo(), 'spintoitem' by spinToItem() and *)
(* 'interact' by a dragEnd that starts a session; no session becomes active *)
(* without an onSpin.                                                       *)
C5_OnSpin ==
    /\ (lastOp = "spin" /\ ~Idle) => raised = <<OnSpin("spin")>>
    /\ (lastOp = "spinTo" /\ ~Idle) => raised = <<OnSpin("spinto")>>
    /\ (lastOp = "spinToItem" /\ ~Idle) => raised = <<OnSpin("spintoitem")>>
    /\ (lastOp = "dragEnd" /\ ~Idle) => raised = <<OnSpin("interact")>>

----------------------------------------------------------------------------
(* Velocity decay on its own: one spin(), then time and animation frames.  *)

\* props.rotationResistance, of either sign
DecayResistances == {DefaultRotationResistance, 0, 35000}
\* props.rotationSpeedMax
DecaySpeedMaxes == {DefaultRotationSpeedMax}
\* spin's rotationSpeed
DecaySpeeds == {0, 10000, -10000}

DecayInit ==
    \E resistance \in DecayResistances, speedMax \in DecaySpeedMaxes :
        Constructed(<<1, 1, 2>>, 0, 0, resistance, speedMax, FALSE)

DecayAdvance == AdvanceWithin(DecayMaxTime)
DecayDraw == \E now \in FrameTimes : Draw(now)
DecaySpin == \E speed \in DecaySpeeds : calls = 0 /\ Call(Spin(speed))

DecayNext == DecayAdvance \/ DecayDraw \/ DecaySpin

\* Time passes, and a requested animation frame is delivered.
DecaySpec ==
    /\ DecayInit
    /\ [][DecayNext]_vars
    /\ WF_vars(DecayAdvance)
    /\ WF_vars(DecayDraw)

\* spin() has just started a session that the time the model runs for lets
\* come to rest: ticks with time elapsed are still to come and, where the
\* resistance slows the wheel, they come after the speed is used up.
DecayStarted ==
    /\ lastOp = "spin"
    /\ SpinActive
    /\ Val(lastSpinFrameTime) + 2 * TimeStep <= DecayMaxTime
    /\ rotationResistance < 0 =>
         Abs(rotationSpeed) * MsPerSecond
           <= Abs(rotationResistance)
              * (DecayMaxTime - 2 * TimeStep - Val(lastSpinFrameTime))

\* A tick has just brought the wheel to rest.
DecayRested ==
    /\ lastOp = "draw"
    /\ Idle
    /\ rotationSpeed = 0
    /\ raised = <<OnRest(currentIndex, rotation)>>
                \/ raised = <<OnCurrentIndexChange(currentIndex),
                              OnRest(currentIndex, rotation)>>

\* A tick raises onRest once when it ends the session, and else not at all.
DecayRestsOnce ==
    [][IsTick => Len(Raised(raised', "rest"))
                   = IF ~Idle /\ IdleNext THEN 1 ELSE 0]_vars

\* At a resistance that slows the wheel the session comes to rest.
DecayRestsAtNegativeResistance ==
    (DecayStarted /\ rotationResistance < 0) ~> DecayRested

----------------------------------------------------------------------------
(* Timed ease on its own: spinTo() and spinToItem(), time and frames.      *)

\* props.rotation
EaseInitRotations == {10000}
\* spinTo's rotation
EaseRotations == {370000, -50000}
\* spinTo's and spinToItem's duration (ms)
EaseDurations == {0, 200}
\* spinTo's and spinToItem's easingFunction
EaseEasingFunctions == {"null", "linear", "overshoot"}
\* The calls of spinTo and spinToItem in one behaviour.
EaseCalls == 2

EaseInit ==
    \E rot \in EaseInitRotations :
        Constructed(<<1, 1, 2>>, rot, 0, DefaultRotationResistance,
                    DefaultRotationSpeedMax, FALSE)

EaseSpinTo ==
    \E r \in EaseRotations, d \in EaseDurations, e \in EaseEasingFunctions :
        calls < EaseCalls /\ Call(SpinTo(r, d, e))

EaseSpinToItem ==
    \E d \in EaseDurations, dir \in {1, -1} :
        calls < EaseCalls
        /\ Call(SpinToItem(1, d, TRUE, 1, dir, "null", getCenterAngle(1)))

\* Frames whose time stamp is the time of the frame or one step before it.
EaseDraw == \E now \in FrameTimes : Draw(now)

EaseNext == Advance \/ EaseDraw \/ EaseSpinTo \/ EaseSpinToItem

EaseSpec == EaseInit /\ [][EaseNext]_vars

\* Frames whose time stamps never decrease.
SteadyDraw == Draw(clock)

SteadyNext == Advance \/ SteadyDraw \/ EaseSpinTo \/ EaseSpinToItem

SteadyEaseSpec == EaseInit /\ [][SteadyNext]_vars

(* C7: in a timed-ease session of any duration >= 0 the first tick with    *)
(* now >= endTime sets rotation to exactly the target rotation, whatever    *)
(* the easing function and the rotations shown before, makes the session    *)
(* Idle and raises onRest.                                                  *)
C7_EndsAtTarget ==
    [][\A now \in FrameTimes :
         (Draw(now) /\ SpinToActive /\ now >= Val(spinToTimeEnd)) =>
             /\ rotation' = spinToEndRotation
             /\ IdleNext
             /\ Raised(raised', "rest")
                  = <<OnRest(currentIndex', spinToEndRotation)>>]_vars

\* A session with an easing function that overshoots has shown a rotation
\* beyond its target and then ended at the target.
C7_Witness ==
    /\ lastOp = "draw"
    /\ Idle
    /\ spinToEasingFunction = "overshoot"
    /\ spinToStartRotation > 370000
    /\ spinToEndRotation = -50000
    /\ rotation = -50000
    /\ Raised(raised, "rest") = <<OnRest(currentIndex, -50000)>>

MonotoneEasing == spinToEasingFunction \in {"easeSinOut", "linear"}

Between(a, x, b) == (a <= x /\ x <= b) \/ (b <= x /\ x <= a)

(* C8: in a timed-ease session ticked with non-decreasing time stamps and  *)
(* a monotonic easing function, rotation equals startRotation at progress  *)
(* 0, lies between startRotation and endRotation, and moves monotonically  *)
(* toward endRotation without overshooting it.                              *)
C8_MonotoneProgress ==
    [][(IsTick /\ SpinToActive /\ MonotoneEasing) =>
         /\ Between(spinToStartRotation, rotation', spinToEndRotation)
         /\ Abs(spinToEndRotation - rotation')
              <= Abs(spinToEndRotation - rotation)
         /\ (clock = spinToTimeStart /\ SpinToActiveNext) =>
                rotation' = spinToStartRotation]_vars

\* Half way through the default easing from 10 to 370 degrees.
C8_Witness ==
    /\ lastOp = "draw"
    /\ SpinToActive
    /\ spinToEasingFunction = "easeSinOut"
    /\ spinToStartRotation = 10000
    /\ spinToEndRotation = 370000
    /\ clock = spinToTimeStart + 100
    /\ rotation > 10000
    /\ rotation < 370000

----------------------------------------------------------------------------
(* spinToItem() on its own, on wheels of several layouts and rotations.    *)

\* props.items
ItemItemLists == {<<1, 1, 1, 1>>, <<3, 4>>}
\* props.rotation: on and off the grid of fixFloat, negative, beyond a turn
ItemInitRotations == {0, 3, -30000, 400000}
\* props.pointerAngle
ItemPointerAngles == {0, 90000}
\* spinToItem's duration (ms)
ItemDurations == {100}
\* spinToItem's numberOfRevolutions
ItemRevolutions == {0, 1}
\* spinToItem's direction
ItemDirections == {1, -1}

ItemInit ==
    \E w \in ItemItemLists, rot \in ItemInitRotations,
       pointer \in ItemPointerAngles :
        Constructed(w, rot, pointer, DefaultRotationResistance,
                    DefaultRotationSpeedMax, FALSE)

ItemSpinToItem ==
    \E i \in 0..(Len(items) - 1), d \in ItemDurations, c \in BOOLEAN,
       n \in ItemRevolutions, dir \in ItemDirections :
        \E a \in RandomAngles(i) \cup {getCenterAngle(i)} :
            calls = 0 /\ Call(SpinToItem(i, d, c, n, dir, "null", a))

ItemDraw == \E now \in FrameTimes : Draw(now)

ItemNext == Advance \/ ItemDraw \/ ItemSpinToItem

ItemSpec == ItemInit /\ [][ItemNext]_vars

(* C9: when a spinToItem(i, ...) session completes without interruption,   *)
(* the current index is i: for every start rotation, pointer angle,        *)
(* direction and number of revolutions, to the centre or to a random angle. *)
C9_LandsOnItem ==
    [][(IsTick /\ target # Null /\ IdleNext) =>
           currentIndex' = Val(target).item]_vars

\* The distance of angle a from a whole number of turns.
TurnDistance(a) ==
    LET m == JsMod(a, FullTurn)
    IN  Min(Abs(m), FullTurn - Abs(m))

\* spinToItem has just aimed at the centre of an item.
AimedAtCentre == lastOp = "spinToItem" /\ target # Null /\ Val(target).center

\* How far the target rotation leaves the centre of the item from the pointer.
CentreOffset ==
    TurnDistance(spinToEndRotation + getCenterAngle(Val(target).item)
                 - pointerAngle)

\* The angle that calcWheelRotationForTargetAngle hands to fixFloat.
CentreAngle ==
    JsMod(JsMod(rotation, FullTurn) + getCenterAngle(Val(target).item)
          - pointerAngle, FullTurn)

(* C10 (as amended): for spinToItem with spinToCenter = true the target    *)
(* rotation places the centre of item i at the pointer to within the       *)
(* rounding of fixFloat, and exactly when the angle fixFloat rounds is on  *)
(* its grid; for every rotation, pointer angle and direction.              *)
C10_CentreAtPointer ==
    AimedAtCentre =>
        /\ 2 * CentreOffset <= FixQuantum
        /\ CentreAngle % FixQuantum = 0 => CentreOffset = 0

(* C10 (as stated): the target rotation places the centre of item i        *)
(* exactly at the pointer, for every current rotation.                     *)
C10_CentreExactlyAtPointer == AimedAtCentre => CentreOffset = 0

\* The item occupying 0 to 90 degrees, pointer 0, direction 1, 0 revolutions.
C10_Witness ==
    /\ AimedAtCentre
    /\ items = <<1, 1, 1, 1>>
    /\ Val(target).item = 0
    /\ pointerAngle = 0
    /\ rotation = 0
    /\ spinToEndRotation = 315000
    /\ CentreOffset = 0

----------------------------------------------------------------------------
(* The current index: rotation changes and replaced item lists.            *)

\* props.items
IndexItemLists == {<<1, 1, 1, 1>>, <<1, 2>>}
\* props.rotation
IndexInitRotations == {0, -30000, 100000}
\* props.pointerAngle
IndexPointerAngles == {0, 90000}
\* Values assigned to rotation
IndexRotations == {-315000, 100000, 460000}
\* Arrays assigned to items
IndexItemArrays == {<<>>, <<Value(1), Value(1)>>}
\* The calls in one behaviour.
IndexCalls == 2

IndexInit ==
    \E w \in IndexItemLists, rot \in IndexInitRotations,
       pointer \in IndexPointerAngles :
        Constructed(w, rot, pointer, -200000, DefaultRotationSpeedMax, FALSE)

IndexSetRotation ==
    \E v \in IndexRotations : calls < IndexCalls /\ Call(SetRotation(Value(v)))
IndexSetItems ==
    \E a \in IndexItemArrays : calls < IndexCalls /\ Call(SetItems(Value(a)))
IndexSpin == \E speed \in {100000, -100000} : calls < IndexCalls /\ Call(Spin(speed))
IndexDragStart == \E p \in Points : calls < IndexCalls /\ Call(DragStart(p))
IndexDragMove == \E p \in {10000, 300000} : calls < IndexCalls /\ Call(DragMove(p))
IndexDraw == \E now \in FrameTimes : Draw(now)

IndexNext ==
    \/ Advance
    \/ IndexDraw
    \/ IndexSetRotation
    \/ IndexSetItems
    \/ IndexSpin
    \/ IndexDragStart
    \/ IndexDragMove

IndexSpec == IndexInit /\ [][IndexNext]_vars

\* The slices of list w, turned by rot, whose range holds the pointer angle
\* modulo 360.
SlicesUnderPointer(w, rot, pointer) ==
    {i \in 1..Len(w) :
        LET a == ItemAnglesOf(w, 0)[i]
        IN  ((pointer - rot - a.start) % FullTurn) < a.end - a.start}

(* C11: after every rotation change, with at least one item the current    *)
(* index is the index of the one slice whose range holds the pointer angle *)
(* modulo 360, for every rotation and pointer angle; with no items it is   *)
(* -1.                                                                     *)
C11_IndexUnderPointer ==
    [][rotation' # rotation =>
         IF Len(items') = 0
         THEN currentIndex' = -1
         ELSE SlicesUnderPointer(items', rotation', pointerAngle')
                = {currentIndex' + 1}]_vars

(* C12: after the constructor has returned, onCurrentIndexChange is raised *)
(* exactly once, carrying the new index, each time the current index takes *)
(* a new value (by a rotation change or a replaced item list, the change   *)
(* to -1 of an emptied list included), and never when the index is         *)
(* recomputed to the same value.                                           *)
C12_IndexChangeRaised ==
    [][clock' = clock =>
         Raised(raised', "currentIndexChange")
           = IF currentIndex' # currentIndex
             THEN <<OnCurrentIndexChange(currentIndex')>>
             ELSE <<>>]_vars

(* C14: no onCurrentIndexChange is raised while a wheel is constructed,    *)
(* whatever items, rotation and pointerAngle its props hold, although the  *)
(* current index is computed during construction.                          *)
C14_SilentConstruction ==
    lastOp = "new" => Raised(raised, "currentIndexChange") = <<>>

\* A wheel constructed at a rotation that put a slice other than the first
\* under the pointer.
C14_Witness ==
    /\ lastOp = "new"
    /\ items = <<1, 1, 1, 1>>
    /\ rotation = 100000
    /\ currentIndex = 2
    /\ raised = <<>>

----------------------------------------------------------------------------
(* A drag on its own: dragStart, dragMove, time, dragEnd.                  *)

\* props.rotationSpeedMax
DragSpeedMaxes == {DefaultRotationSpeedMax, 50000}
\* The points of the pointer, named by their angles.
DragPoints == {0, 10000, 20000, 30000}
\* The length the drag history may reach.
DragMaxEvents == 4
\* The calls in one behaviour.
DragCalls == 5

DragInit ==
    \E speedMax \in DragSpeedMaxes :
        Constructed(<<1, 1, 2>>, 0, 0, DefaultRotationResistance, speedMax,
                    FALSE)

DragDragStart == calls = 0 /\ Call(DragStart(0))
DragDragMove ==
    \E p \in DragPoints :
        CallWithin(DragMoveWithin(p, DragMaxEvents), DragCalls)
DragDragEnd == CallWithin(DragEnd, DragCalls)
DragNext == Advance \/ DragDragStart \/ DragDragMove \/ DragDragEnd

DragSpec == DragInit /\ [][DragNext]_vars

RECURSIVE WindowSum(_, _)
\* The sum of the deltas of history h, newest first, up to the first entry
\* that is more than 250 ms old at time now.
WindowSum(h, now) ==
    IF h = <<>> \/ now - Head(h).now > dragCapturePeriod THEN 0
    ELSE Head(h).distance + WindowSum(Tail(h), now)

RECURSIVE WindowKept(_, _)
\* The entries of history h before that entry.
WindowKept(h, now) ==
    IF h = <<>> \/ now - Head(h).now > dragCapturePeriod THEN <<>>
    ELSE <<Head(h)>> \o WindowKept(Tail(h), now)

Clamp(x, lo, hi) == IF x < lo THEN lo ELSE IF x > hi THEN hi ELSE x

\* The speed the drag history gives at a release now.
ReleaseSpeed ==
    Clamp(WindowSum(dragEvents, clock) * (MsPerSecond \div dragCapturePeriod),
          -rotationSpeedMax, rotationSpeedMax)

(* C15: dragEnd starts a velocity-decay session with speed                  *)
(* clamp(D * 1000 / 250, -rotationSpeedMax, rotationSpeedMax), D the sum of *)
(* the deltas of the history entries at most 250 ms old at release (the     *)
(* first older entry and all after it are cut and count for nothing), and   *)
(* direction the sign of that speed.                                        *)
C15_ReleaseSpeed ==
    [][(IsCall /\ lastOp' = "dragEnd" /\ WindowSum(dragEvents, clock) # 0) =>
         /\ rotationSpeed' = ReleaseSpeed
         /\ rotationDirection' = IF ReleaseSpeed >= 0 THEN 1 ELSE -1
         /\ lastSpinFrameTime' = Some(clock)
         /\ spinToTimeEnd' = Null
         /\ dragEvents' = WindowKept(dragEvents, clock)]_vars

\* Three moves of +10 degrees inside the window, released at 120 degrees per
\* second.
C15_Witness ==
    /\ lastOp = "dragEnd"
    /\ Len(dragEvents) = 4
    /\ \A i \in 1..3 : dragEvents[i].distance = 10000
    /\ rotationSpeed = 120000
    /\ rotationDirection = 1
    /\ SpinActive

----------------------------------------------------------------------------
(* The layout of the slices, over item lists and base rotations.           *)

\* props.items
LayoutItemLists == {<<1>>, <<1, 2>>, <<1, 1, 2>>}
\* The arrays assigned to wheel.items, by the weight of each element.
LayoutItemArrays ==
    {<<>>, <<Value(3), Value(5)>>, <<Value(3), Value(-1)>>,
     <<Value(1), Value(0)>>, <<Value(0), Value(0)>>,
     <<Value(2), Undefined, Value(1)>>}
\* The values assigned to wheel.rotation, the base rotation of the layout.
LayoutRotations == {0, 30000, -45000, 400000}
\* The calls in one behaviour.
LayoutCalls == 3

LayoutInit ==
    \E w \in LayoutItemLists :
        Constructed(w, DefaultRotation, DefaultPointerAngle,
                    DefaultRotationResistance, DefaultRotationSpeedMax, FALSE)

LayoutSetItems ==
    \E a \in LayoutItemArrays : CallWithin(SetItems(Value(a)), LayoutCalls)
LayoutSetRotation ==
    \E r \in LayoutRotations : CallWithin(SetRotation(Value(r)), LayoutCalls)
LayoutDraw == \E now \in FrameTimes : Draw(now)

LayoutNext == LayoutSetItems \/ LayoutSetRotation \/ LayoutDraw

LayoutSpec == LayoutInit /\ [][LayoutNext]_vars

\* The total weight of the wheel's items.
TotalWeight == SumWeights(items, Len(items))

\* The properties of the layout a of n items at base rotation rot.
ContiguousLayout(a, n, rot) ==
    /\ DOMAIN a = 1..n
    /\ n > 0 => a[1].start = rot
    /\ \A i \in 1..n : a[i].start <= a[i].end
    /\ \A i \in 1..(n - 1) : a[i].end = a[i + 1].start
    /\ n > 0 => a[n].end = a[1].start + FullTurn

(* C17: for every item list with total weight > 0 and every base rotation,  *)
(* getItemAngles returns one range per item in item order, the first        *)
(* starting at the base rotation, every range with start <= end, each       *)
(* range's end equal to the next range's start, and the last range's end    *)
(* equal to the first range's start + 360; zero items gives an empty list.  *)
C17_ContiguousLayout ==
    /\ TotalWeight > 0 =>
           ContiguousLayout(getItemAngles(rotation), Len(items), rotation)
    /\ Len(items) = 0 => getItemAngles(rotation) = <<>>

\* The same for the lists whose weights are all above 0.
LayoutOfPositiveWeights ==
    (\A i \in 1..Len(items) : items[i] > 0) =>
        ContiguousLayout(getItemAngles(rotation), Len(items), rotation)

(* C18: in the layout returned by getItemAngles every item's range width    *)
(* (end - start) equals 360 * weight / total weight, the last range, whose  *)
(* end is forced to the first start + 360, and a single item included.      *)
C18_WidthByWeight ==
    (Len(items) > 0 /\ TotalWeight # 0) =>
        \A i \in 1..Len(items) :
            LET a == getItemAngles(rotation)[i]
            IN  (a.end - a.start) * TotalWeight = FullTurn * items[i]

\* Weights 3 and 5 at base rotation 30: widths 135 and 225 degrees.
C18_Witness ==
    /\ items = <<3, 5>>
    /\ rotation = 30000
    /\ getItemAngles(rotation) = <<[start |-> 30000, end |-> 165000],
                                   [start |-> 165000, end |-> 390000]>>

\* A list of weights that holds a zero or negative weight, or whose total is 0.
BadWeights(w) ==
    \/ \E i \in 1..Len(w) : w[i] <= 0
    \/ Len(w) > 0 /\ SumWeights(w, Len(w)) = 0

(* C19: an item list that contains a zero or negative weight, or whose      *)
(* total weight is 0, is rejected with an error before any layout is        *)
(* computed; getItemAngles is never evaluated with a total weight of 0.     *)
C19_BadWeightsRejected ==
    [][\A a \in LayoutItemArrays :
         (BadWeights(ItemWeights(a)) /\ SetItems(Value(a))) =>
             (lastOp' = "throw" /\ items' = items)]_vars

\* The wheel never lays out items of total weight 0.
TotalWeightNeverZero == Len(items) > 0 => TotalWeight # 0

----------------------------------------------------------------------------
(* Assignments to the configuration properties.                            *)

\* The numbers assigned to the numeric properties.
PropNumbers == {-10000, 0, 400000}
\* What is assigned to a numeric property.
PropValues == {Value(n) : n \in PropNumbers} \cup {Undefined, Invalid}
\* The arrays assigned to wheel.items, by the weight of each element.
PropItemArrays == {<<>>, <<Value(2), Undefined>>, <<Value(1), Invalid>>}
\* The calls in one behaviour.
PropCalls == 3

PropInit ==
    Constructed(<<1, 2>>, DefaultRotation, DefaultPointerAngle,
                DefaultRotationResistance, DefaultRotationSpeedMax, FALSE)

PropSetRotation ==
    \E val \in PropValues : CallWithin(SetRotation(val), PropCalls)
PropSetPointerAngle ==
    \E val \in PropValues : CallWithin(SetPointerAngle(val), PropCalls)
PropSetRotationResistance ==
    \E val \in PropValues : CallWithin(SetRotationResistance(val), PropCalls)
PropSetRotationSpeedMax ==
    \E val \in PropValues : CallWithin(SetRotationSpeedMax(val), PropCalls)
\* What is assigned to wheel.items: an array, undefined, or another value.
PropItemsValue(kind, a) ==
    IF kind = "value" THEN Value(a)
    ELSE IF kind = "undefined" THEN Undefined ELSE Invalid
PropSetItems ==
    \E kind \in {"value", "undefined", "invalid"}, a \in PropItemArrays :
        CallWithin(SetItems(PropItemsValue(kind, a)), PropCalls)
PropDraw == \E now \in FrameTimes : Draw(now)

PropNext ==
    \/ PropSetRotation
    \/ PropSetPointerAngle
    \/ PropSetRotationResistance
    \/ PropSetRotationSpeedMax
    \/ PropSetItems
    \/ PropDraw

PropSpec == PropInit /\ [][PropNext]_vars

\* The assignment is refused with an error and the wheel is as it was.
Refused ==
    /\ lastOp' = "throw"
    /\ UNCHANGED <<config, rotation, currentIndex, rotationSpeed,
                   rotationDirection, lastSpinFrameTime, spinToTimeEnd,
                   spinToVars, dragEvents, isDragging, isInitialising>>

\* What the assignment of val must do to a property whose new value is new:
\* store result if val is valid, the default if val is undefined, and refuse
\* any other value.
Assigned(val, valid, new, default, result) ==
    IF valid THEN lastOp' # "throw" /\ new = result
    ELSE IF val.kind = "undefined" THEN lastOp' # "throw" /\ new = default
    ELSE Refused

\* The assignments to the properties of the wheel.
WheelPropertyAssigned ==
    /\ \A val \in PropValues :
         /\ SetRotation(val) =>
              Assigned(val, val.kind = "value", rotation', DefaultRotation,
                       val.v)
         /\ SetPointerAngle(val) =>
              Assigned(val, val.kind = "value" /\ val.v >= 0, pointerAngle',
                       DefaultPointerAngle, val.v % FullTurn)
         /\ SetRotationResistance(val) =>
              Assigned(val, val.kind = "value", rotationResistance',
                       DefaultRotationResistance, val.v)
         /\ SetRotationSpeedMax(val) =>
              Assigned(val, val.kind = "value" /\ val.v >= 0,
                       rotationSpeedMax', DefaultRotationSpeedMax, val.v)
    /\ SetItems(Undefined) => (lastOp' # "throw" /\ items' = <<>>)
    /\ SetItems(Invalid) => Refused

\* The assignments to the weight of the items of an array given to the wheel.
ItemPropertyAssigned ==
    \A a \in PropItemArrays :
        SetItems(Value(a)) =>
            IF \E i \in 1..Len(a) : a[i].kind = "invalid" THEN Refused
            ELSE /\ lastOp' # "throw"
                 /\ items' = [i \in 1..Len(a) |->
                                IF a[i].kind = "undefined"
                                THEN DefaultItemWeight ELSE a[i].v]

(* C20: assigning a configuration property of the wheel or of an item, a    *)
(* valid value is stored, undefined stores the documented default, and any  *)
(* other invalid value is refused with an error, the property keeping its   *)
(* previous value and the rest of the wheel state being unchanged; an       *)
(* invalid value is never silently replaced by the default.                 *)
C20_PropertyAssignment ==
    [][IsCall => (WheelPropertyAssigned /\ ItemPropertyAssigned)]_vars

\* The same for the properties of the wheel alone.
WheelPropertyAssignment == [][IsCall => WheelPropertyAssigned]_vars

----------------------------------------------------------------------------
(* Ticks that arrive out of order.                                         *)

\* A tick stamped now that is not later than the start of the timed-ease
\* session, or than the last tick of the velocity-decay session.
StaleTick(now) ==
    \/ SpinToActive /\ now <= spinToTimeStart
    \/ ~SpinToActive /\ SpinActive /\ now <= Val(lastSpinFrameTime)

(* C16: in either session mode a tick whose time stamp is not later than    *)
(* the previously processed one (or than the session's start time) is a     *)
(* no-op: rotation, speed and session state are unchanged.                  *)
C16_StaleTickIsNoOp ==
    [][\A now \in FrameTimes :
         (StaleTick(now) /\ Draw(now)) =>
             UNCHANGED <<rotation, rotationSpeed, rotationDirection,
                         lastSpinFrameTime, spinToTimeEnd>>]_vars

\* The same for the velocity-decay session alone.
StaleDecayTickIsNoOp ==
    [][\A now \in FrameTimes :
         (~SpinToActive /\ StaleTick(now) /\ Draw(now)) =>
             UNCHANGED <<rotation, rotationSpeed, rotationDirection,
                         lastSpinFrameTime, spinToTimeEnd>>]_vars

\* The same for a timed-ease session of a duration above 0 whose rotation is
\* still the start rotation.
StaleEaseTickAtStartIsNoOp ==
    [][\A now \in FrameTimes :
         (/\ SpinToActive /\ StaleTick(now) /\ Draw(now)
          /\ rotation = spinToStartRotation
          /\ Val(spinToTimeEnd) > spinToTimeStart) =>
             UNCHANGED <<rotation, rotationSpeed, rotationDirection,
                         lastSpinFrameTime, spinToTimeEnd>>]_vars

----------------------------------------------------------------------------
(* One revolution of the wheel in small steps of its rotation.             *)

\* props.items
TurnItemLists == {<<1, 1, 1, 1>>, <<1, 2>>, <<1, 1>>}
\* props.rotation
TurnInitRotations == {0, 30000}
\* props.pointerAngle
TurnPointerAngles == {0, 90000}
\* The number of steps the revolution is made in.
TurnSteps == 8
TurnStep == FullTurn \div TurnSteps

TurnInit ==
    \E w \in TurnItemLists, rot \in TurnInitRotations,
       pointer \in TurnPointerAngles, direction \in {1, -1} :
        /\ ConstructedWheel(w, rot, pointer, DefaultRotationResistance,
                            DefaultRotationSpeedMax, FALSE)
        /\ turn = Some([direction |-> direction, start |-> rot, seen |-> <<>>])
        /\ announced = Null
        /\ frame = Null
        /\ pointers = Null
        /\ other = Null

\* How far the wheel has turned in the direction of the revolution.
Turned == (rotation - Val(turn).start) * Val(turn).direction

\* The wheel has been shown once; its rotation is stepped on.
TurnForward ==
    /\ ~isInitialising
    /\ Turned < FullTurn
    /\ CallWithin(SetRotation(Value(rotation + Val(turn).direction * TurnStep)),
                  TurnSteps)

TurnDraw == \E now \in FrameTimes : Draw(now)

TurnNext == Advance \/ TurnDraw \/ TurnForward

TurnSpec == TurnInit /\ [][TurnNext]_vars

(* C13: when a wheel of n >= 2 items has turned through one revolution in  *)
(* one direction, in steps smaller than its smallest slice,                *)
(* onCurrentIndexChange has been raised n times, once per slice boundary   *)
(* that passed the pointer, visiting the indexes in cyclic order.          *)
C13_OncePerBoundary ==
    Turned = FullTurn =>
        LET seen == Val(turn).seen
            n == Len(items)
        IN  /\ Len(seen) = n
            /\ \A k \in 1..(Len(seen) - 1) :
                   seen[k + 1] = (seen[k] - Val(turn).direction) % n

----------------------------------------------------------------------------
(* Calls of spin, spinTo and spinToItem with invalid arguments.            *)

\* What is handed to spin as its speed.
ArgSpeeds == {Value(100000), Undefined, Invalid}
\* What is handed to spinTo as its rotation and as its duration.
ArgRotations == {Value(370000), Undefined, Invalid}
ArgDurations == {Value(200), Undefined, Invalid}
\* The item indexes handed to spinToItem.
ArgItemIndexes == {0, 2, -1}
\* The calls in one behaviour.
ArgCalls == 3

ArgInit ==
    Constructed(<<1, 2>>, DefaultRotation, DefaultPointerAngle,
                DefaultRotationResistance, DefaultRotationSpeedMax, FALSE)

ArgSpin == \E val \in ArgSpeeds : CallWithin(SpinWith(val), ArgCalls)
ArgSpinTo ==
    \E rot \in ArgRotations, dur \in ArgDurations :
        CallWithin(SpinToWith(rot, dur, "linear"), ArgCalls)
ArgSpinToItem ==
    \E i \in ArgItemIndexes :
        IF i \in 0..(Len(items) - 1)
        THEN CallWithin(SpinToItem(i, 200, TRUE, 1, 1, "linear",
                                   getCenterAngle(i)), ArgCalls)
        ELSE CallWithin(SpinToItemMissing(i), ArgCalls)
ArgDragStart == CallWithin(DragStart(0), ArgCalls)
ArgDragMove == CallWithin(DragMove(10000), ArgCalls)
ArgDraw == \E now \in FrameTimes : Draw(now)

ArgNext ==
    \/ Advance
    \/ ArgDraw
    \/ ArgSpin
    \/ ArgSpinTo
    \/ ArgSpinToItem
    \/ ArgDragStart
    \/ ArgDragMove

ArgSpec == ArgInit /\ [][ArgNext]_vars

\* The call failed with an error, raised no onSpin and changed nothing.
Rejected == Refused /\ Raised(raised', "spin") = <<>>

\* The calls of spin and spinTo with an argument that is not a number.
InvalidNumberRejected ==
    /\ SpinWith(Invalid) => Rejected
    /\ \A rot \in ArgRotations, dur \in ArgDurations :
         (rot.kind = "invalid" \/ dur.kind = "invalid")
           => (SpinToWith(rot, dur, "linear") => Rejected)

\* The calls of spinToItem with an index outside the item list.
MissingItemRejected ==
    \A i \in ArgItemIndexes : SpinToItemMissing(i) => Rejected

(* C21: spin, spinTo and spinToItem called with invalid arguments (a speed, *)
(* rotation or duration that is not a number; an item index outside the     *)
(* item list) fail with an error and change nothing: the active session,    *)
(* rotation, rotation speed and drag history are as before the call, and    *)
(* no onSpin is raised.                                                     *)
C21_InvalidCallRejected ==
    [][IsCall => (InvalidNumberRejected /\ MissingItemRejected)]_vars

\* The same for spin and spinTo alone.
InvalidNumberCallRejected == [][IsCall => InvalidNumberRejected]_vars

----------------------------------------------------------------------------
(* C22: when Idle, a tick changes neither rotation nor current index,       *)
(* raises no notification and requests no further frame: once a session     *)
(* has ended and no operation occurs, frame requests stop.                  *)
C22_IdleTick ==
    [][(IsTick /\ Idle) =>
         /\ rotation' = rotation
         /\ currentIndex' = currentIndex
         /\ raised' = <<>>
         /\ ~frameRequestId']_vars

\* A tick after the timed-ease session to 370 degrees has ended: no frame is
\* requested any more.
C22_Witness ==
    /\ lastOp = "draw"
    /\ Idle
    /\ rotation = 370000
    /\ ~frameRequestId

\* With no further call, the frames come to an end once the wheel is Idle.
FramesStop == <>[](Idle => ~frameRequestId)

----------------------------------------------------------------------------
(* Two wheels of one page.                                                 *)

\* props.items of a wheel: no items property, or an array of weights.
PairItemKinds == {"undefined", "value"}
PairInitArray == <<Value(1), Value(2)>>
\* The arrays assigned to wheel.items.
PairItemArrays == {<<Value(1), Value(1)>>}
\* The length the item list may reach.
PairMaxItems == 2
\* The calls in one behaviour.
PairCalls == 3

\* The items a wheel constructed with props.items = val holds.
ConstructedItems(val) ==
    IF val.kind = "value" THEN ItemWeights(val.v) ELSE <<>>

\* The second wheel, constructed with the items w.
SecondWheel(w) ==
    [items |-> w, rotation |-> DefaultRotation,
     currentIndex |-> ConstructedIndex(w, DefaultRotation),
     rotationSpeed |-> 0, lastSpinFrameTime |-> Null, spinToTimeEnd |-> Null,
     dragEvents |-> <<>>]

PairInit ==
    \E ka \in PairItemKinds, kb \in PairItemKinds :
      LET a == PropItemsValue(ka, PairInitArray)
          b == PropItemsValue(kb, PairInitArray)
      IN
        /\ ConstructedWheel(ConstructedItems(a), DefaultRotation,
                            DefaultPointerAngle, DefaultRotationResistance,
                            DefaultRotationSpeedMax, FALSE)
        /\ turn = Null
        /\ announced = Null
        /\ frame = Null
        /\ pointers = Null
        /\ other = Some([defaults |-> <<>>,
                         mine |-> a.kind = "undefined",
                         theirs |-> b.kind = "undefined",
                         wheel |-> SecondWheel(ConstructedItems(b))])

\* A call of a method of the first wheel that touches no array of items.
PairCall(op) ==
    /\ calls < PairCalls
    /\ calls' = calls + 1
    /\ op
    /\ UNCHANGED <<turn, other, announced, frame, pointers>>

\* wheel.items = val on the first wheel.
PairSetItems ==
    \E kind \in PairItemKinds, a \in PairItemArrays :
        LET val == PropItemsValue(kind, a)
        IN  /\ calls < PairCalls
            /\ calls' = calls + 1
            /\ SetItemsFrom(val, Val(other).defaults)
            /\ other' = Some([Val(other) EXCEPT !.mine = kind = "undefined"])
            /\ UNCHANGED <<turn, announced, frame, pointers>>

\* wheel.items.push({weight: 1}) on the first wheel.
PairPushItem ==
    /\ calls < PairCalls
    /\ Len(items) < PairMaxItems
    /\ calls' = calls + 1
    /\ PushItem(1)
    /\ other' =
         Some([Val(other) EXCEPT
                 !.defaults = IF Val(other).mine THEN items' ELSE @,
                 !.wheel.items =
                     IF Val(other).mine /\ Val(other).theirs THEN items'
                     ELSE @])
    /\ UNCHANGED <<turn, announced, frame, pointers>>

PairSpin == PairCall(Spin(100000))
PairSpinTo == PairCall(SpinTo(370000, 200, "linear"))
PairStop == PairCall(Stop)
PairDragStart == PairCall(DragStart(0))
PairDragMove == PairCall(DragMove(10000))
PairDragEnd == PairCall(DragEnd)
PairSetRotation == PairCall(SetRotation(Value(100000)))
PairDraw == \E now \in FrameTimes : Draw(now)

PairNext ==
    \/ Advance
    \/ PairDraw
    \/ PairSpin
    \/ PairSpinTo
    \/ PairStop
    \/ PairDragStart
    \/ PairDragMove
    \/ PairDragEnd
    \/ PairSetRotation
    \/ PairSetItems
    \/ PairPushItem

PairSpec == PairInit /\ [][PairNext]_vars

(* C23: two wheel instances are independent: no operation on one wheel      *)
(* (spin, spinTo, stop, drag, property or item assignment, or an in-place    *)
(* change to a collection returned by one of its getters) changes the        *)
(* rotation, session, drag history, item list or current index observed on  *)
(* the other wheel, also when both were created with default properties.     *)
C23_Independent ==
    [][other # Null => Val(other').wheel = Val(other).wheel]_vars

\* The same for the operations other than the in-place change of a list.
IndependentOfCalls ==
    [][(other # Null /\ lastOp' # "push") =>
         Val(other').wheel = Val(other).wheel]_vars

\* The same while the two wheels do not both hold the default list of items.
IndependentLists ==
    [][(other # Null /\ ~(Val(other).mine /\ Val(other).theirs)) =>
         Val(other').wheel = Val(other).wheel]_vars

----------------------------------------------------------------------------
(* The angle functions of util.js, over angles of any sign and size.       *)

\* The angles: negative, beyond a turn, multiples of a turn, next to them.
Angles ==
    {-720000, -540000, -360000, -180010, -180000, -90000, -10, 0, 10, 90000,
     179990, 180000, 270000, 359990, 360000, 540000, 725000}
\* The angles handed to pointerAngle.
AnglePointerAngles == {0, 10, 90000, 180000, 270000, 359990}
\* The calls in one behaviour.
AngleCalls == 3

AngleInit ==
    \E rot \in Angles :
        Constructed(<<1, 2>>, rot, DefaultPointerAngle,
                    DefaultRotationResistance, DefaultRotationSpeedMax, FALSE)

\* spinTo(b) from rotation a keeps the two angles a and b.
AngleSpinTo ==
    \E r \in Angles : CallWithin(SpinTo(r, 0, "null"), AngleCalls)
AngleSetPointerAngle ==
    \E p \in AnglePointerAngles :
        CallWithin(SetPointerAngle(Value(p)), AngleCalls)

AngleNext == AngleSpinTo \/ AngleSetPointerAngle

AngleSpec == AngleInit /\ [][AngleNext]_vars

\* A timed-ease session holds two angles.
TwoAngles == lastOp = "spinTo" \/ SpinToActive

\* Angle x is in [0, 360).
InTurn(x) == 0 <= x /\ x < FullTurn

(* C24: for all angles a and b (any sign, any magnitude),                    *)
(* d = diffAngle(a, b) is the shortest signed difference: |d| <= 180 and     *)
(* addAngle(a, d) equals b reduced to [0, 360); addAngle itself always       *)
(* returns a value in [0, 360), also for negative sums and for sums that     *)
(* are exact multiples of 360.                                               *)
C24_ShortestDifference ==
    TwoAngles =>
        LET a == spinToStartRotation
            b == spinToEndRotation
            d == diffAngle(a, b)
        IN  /\ Abs(d) <= HalfTurn
            /\ addAngle(a, d) = b % FullTurn
            /\ InTurn(addAngle(a, b))
            /\ InTurn(addAngle(a, d))

\* From 270 to -720 degrees: the difference is 90 and the sum a full turn,
\* which addAngle gives as 0.
C24_Witness ==
    /\ TwoAngles
    /\ spinToStartRotation = 270000
    /\ spinToEndRotation = -720000
    /\ diffAngle(spinToStartRotation, spinToEndRotation) = 90000
    /\ addAngle(spinToStartRotation, 90000) = 0

\* Angle x is on the arc that runs from start in the direction of growing
\* angles up to end, start included and end excluded.
OnArc(x, start, end) ==
    (x - start) % FullTurn < (end - start) % FullTurn

(* C25: isAngleBetween(angle, start, end) is half-open membership on the     *)
(* circle for angle, start, end in [0, 360): when start < end it is true     *)
(* exactly for start <= angle < end; when start > end exactly for            *)
(* angle >= start or angle < end; start is included and end excluded.        *)
C25_HalfOpenArc ==
    LET angle == pointerAngle
        start == spinToStartRotation
        end == spinToEndRotation
    IN  (TwoAngles /\ InTurn(start) /\ InTurn(end) /\ start # end) =>
            /\ isAngleBetween(angle, start, end) <=> OnArc(angle, start, end)
            /\ isAngleBetween(start, start, end)
            /\ ~isAngleBetween(end, start, end)
            /\ start < end =>
                 (isAngleBetween(angle, start, end)
                    <=> (start <= angle /\ angle < end))
            /\ start > end =>
                 (isAngleBetween(angle, start, end)
                    <=> (angle >= start \/ angle < end))

\* The arc from 270 to 90 degrees through 0, with the angle on its end.
C25_Witness ==
    /\ TwoAngles
    /\ spinToStartRotation = 270000
    /\ spinToEndRotation = 90000
    /\ pointerAngle = 90000
    /\ ~isAngleBetween(pointerAngle, spinToStartRotation, spinToEndRotation)
    /\ isAngleBetween(0, spinToStartRotation, spinToEndRotation)

----------------------------------------------------------------------------
(* The speed of the wheel: spin, drag release, ticks and the assignments   *)
(* to rotationSpeedMax and rotationResistance.                              *)

\* props.rotationResistance
SpeedResistances == {DefaultRotationResistance, -2000000}
\* spin's rotationSpeed
SpeedSpeeds == {0, 100000, -400000, 4000000}
\* The values assigned to rotationSpeedMax and to rotationResistance.
SpeedMaxValues == {50000, 5000000}
SpeedResistanceValues == {35000}
\* The calls in one behaviour.
SpeedCalls == 3

SpeedInit ==
    \E resistance \in SpeedResistances :
        Constructed(<<1, 2>>, DefaultRotation, DefaultPointerAngle, resistance,
                    DefaultRotationSpeedMax, FALSE)

SpeedSpin == \E speed \in SpeedSpeeds : CallWithin(Spin(speed), SpeedCalls)
SpeedSpinTo == CallWithin(SpinTo(370000, 200, "linear"), SpeedCalls)
SpeedSetRotationSpeedMax ==
    \E v \in SpeedMaxValues :
        CallWithin(SetRotationSpeedMax(Value(v)), SpeedCalls)
SpeedSetRotationResistance ==
    \E v \in SpeedResistanceValues :
        CallWithin(SetRotationResistance(Value(v)), SpeedCalls)
SpeedDragStart == CallWithin(DragStart(0), SpeedCalls)
SpeedDragMove == CallWithin(DragMove(30000), SpeedCalls)
SpeedDragEnd == CallWithin(DragEnd, SpeedCalls)
SpeedDraw == \E now \in FrameTimes : Draw(now)

SpeedNext ==
    \/ Advance
    \/ SpeedDraw
    \/ SpeedSpin
    \/ SpeedSpinTo
    \/ SpeedSetRotationSpeedMax
    \/ SpeedSetRotationResistance
    \/ SpeedDragStart
    \/ SpeedDragMove
    \/ SpeedDragEnd

SpeedSpec == SpeedInit /\ [][SpeedNext]_vars

\* The direction of a speed: clockwise for 0.
DirectionOf(speed) == IF speed >= 0 THEN 1 ELSE -1

(* C26: spin(s) cancels any active session and enters velocity-decay with   *)
(* rotationSpeed = clamp(s, -rotationSpeedMax, rotationSpeedMax) and         *)
(* direction +1 when that speed is >= 0 (0 counts as clockwise) and -1       *)
(* otherwise.                                                                *)
C26_SpinStartsDecay ==
    [][\A s \in SpeedSpeeds :
         (IsCall /\ Spin(s)) =>
             LET speed == Clamp(s, -rotationSpeedMax, rotationSpeedMax)
             IN  /\ ~SpinToActiveNext
                 /\ SpinActiveNext
                 /\ lastSpinFrameTime' = Some(clock)
                 /\ rotationSpeed' = speed
                 /\ rotationDirection' = DirectionOf(speed)]_vars

\* spin(-400) on a wheel in a timed-ease session to 370 degrees: the session
\* is gone and the wheel turns anticlockwise at the maximum of 300.
C26_Witness ==
    /\ lastOp = "spin"
    /\ spinToEndRotation = 370000
    /\ ~SpinToActive
    /\ SpinActive
    /\ rotationSpeed = -300000
    /\ rotationDirection = -1

\* The rotation step of a tick of a velocity-decay session after delta ms at
\* the given speed: the part of speed * delta below a full turn, signed.
DecayStep(speed, delta) ==
    Sign(speed) * (((Abs(speed) * delta) \div MsPerSecond) % FullTurn)

(* C27: during a velocity-decay session the wheel never turns backwards:     *)
(* the speed never changes sign relative to the session's direction          *)
(* (clamped to exactly 0 at the crossing), and each tick changes rotation    *)
(* by an amount of the direction's sign (or zero) with magnitude below 360,  *)
(* computed from the speed before decay is applied.                          *)
C27_NeverBackwards ==
    [][/\ SpinActiveNext => rotationSpeed' * rotationDirection' >= 0
       /\ \A now \in FrameTimes :
            (SpinActive /\ ~SpinToActive /\ Draw(now)) =>
                LET step == rotation' - rotation
                    delta == now - Val(lastSpinFrameTime)
                IN  /\ step * rotationDirection >= 0
                    /\ Abs(step) < FullTurn
                    /\ rotationSpeed' * rotationDirection >= 0
                    /\ step = IF delta > 0 THEN DecayStep(rotationSpeed, delta)
                                           ELSE 0]_vars

\* A tick of 100 ms at 4000 degrees per second: the wheel turns by 400
\* degrees less a full turn, and the speed, 200 less, is still clockwise.
C27_Witness ==
    /\ lastOp = "draw"
    /\ SpinActive
    /\ rotationDirection = 1
    /\ rotation = 40000
    /\ rotationSpeed = 3800000

(* C28: in every reachable state the magnitude of rotationSpeed is at most   *)
(* rotationSpeedMax, after any sequence of spin, drag release, ticks and     *)
(* assignments to rotationSpeedMax and rotationResistance.                   *)
C28_SpeedWithinMax == Abs(rotationSpeed) <= rotationSpeedMax

\* The same after the operations that set the speed: spin and drag release.
SpeedSetWithinMax ==
    lastOp \in {"spin", "dragEnd"} => Abs(rotationSpeed) <= rotationSpeedMax

----------------------------------------------------------------------------
(* The way spinToItem travels to its target.                               *)

\* The call spinToItem(i, ..., n, dir, ...) aiming at the angle a of item i
\* travels in direction dir by n turns and less than one more, to a rotation
\* that leaves the angle a within slack of the pointer.
TravelsInDirection(slack) ==
    (IsCall /\ lastOp' = "spinToItem") =>
      \A i \in 0..(Len(items) - 1), d \in ItemDurations, c \in BOOLEAN,
         n \in ItemRevolutions, dir \in ItemDirections :
          \A a \in RandomAngles(i) \cup {getCenterAngle(i)} :
              SpinToItem(i, d, c, n, dir, "null", a) =>
                  LET travel == dir * (spinToEndRotation' - rotation)
                  IN  /\ n * FullTurn <= travel
                      /\ travel < (n + 1) * FullTurn
                      /\ 2 * TurnDistance(spinToEndRotation' + a
                                          - pointerAngle) <= slack

(* C29: for spinToItem with direction d and r >= 0 revolutions the target    *)
(* rotation T satisfies d * (T - current rotation) = a + 360 * r with        *)
(* 0 <= a < 360, and T brings the target angle to the pointer to within the  *)
(* rounding of fixFloat, for every current rotation, negative ones included. *)
C29_TravelInDirection == [][TravelsInDirection(FixQuantum)]_vars

(* C29 (as stated): the same, with the target angle brought to the pointer   *)
(* exactly: (c + delta + t) = 0 modulo 360.                                  *)
C29_TravelExact == [][TravelsInDirection(0)]_vars

\* From rotation -30 degrees, anticlockwise with one revolution to the centre
\* of the first of four items: 15 degrees and a full turn, to -405.
C29_Witness ==
    /\ AimedAtCentre
    /\ items = <<1, 1, 1, 1>>
    /\ Val(target).item = 0
    /\ pointerAngle = 0
    /\ rotation = -30000
    /\ spinToEndRotation = -405000

----------------------------------------------------------------------------
(* C30: if the deltas of the drag-history entries within the 250 ms window  *)
(* sum to 0 at dragEnd (no move at all, moves that cancel out, or every     *)
(* move older than 250 ms), the wheel stays Idle: no session starts,        *)
(* rotation speed stays 0, and no onSpin is raised.                         *)
C30_StillRelease ==
    [][(IsCall /\ lastOp' = "dragEnd" /\ WindowSum(dragEvents, clock) = 0) =>
         /\ UNCHANGED <<rotation, rotationSpeed, rotationDirection,
                        lastSpinFrameTime, spinToTimeEnd>>
         /\ raised' = <<>>
         /\ Idle => (IdleNext /\ rotationSpeed' = 0)]_vars

\* A release after a move of +10 degrees and a move of -10 degrees, both in
\* the window: the wheel is Idle.
C30_Witness ==
    /\ lastOp = "dragEnd"
    /\ Len(dragEvents) = 3
    /\ dragEvents[1].distance = -10000
    /\ dragEvents[2].distance = 10000
    /\ Idle
    /\ rotationSpeed = 0

\* onRest is only raised by a tick of a session: none follows a release that
\* left the wheel Idle.
RestEndsSession ==
    [][((IsCall \/ (IsTick /\ Idle)) /\ raised' # raised) =>
         Raised(raised', "rest") = <<>>]_vars

----------------------------------------------------------------------------
(* C31: each dragMove adds diffAngle(previous pointer angle, new pointer   *)
(* angle) to rotation and puts one history entry with that delta in front  *)
(* of the history, so that the rotation follows the pointer 1:1 throughout *)
(* a drag; dragMove starts no session and raises neither onSpin nor onRest.*)
C31_DragTracking ==
    [][(IsCall /\ lastOp' = "dragMove") =>
         /\ dragEvents # <<>>
         /\ LET d == diffAngle(getAngleFromCenter(dragEvents[1].point),
                               getAngleFromCenter(dragEvents'[1].point))
            IN  /\ rotation' = rotation + d
                /\ dragEvents'[1].distance = d
                /\ Tail(dragEvents') = dragEvents
         /\ UNCHANGED <<rotationSpeed, lastSpinFrameTime, spinToTimeEnd>>
         /\ Raised(raised', "spin") = <<>>
         /\ Raised(raised', "rest") = <<>>]_vars

\* The part of C31 about sessions and notifications alone.
DragMoveStartsNothing ==
    [][(IsCall /\ lastOp' = "dragMove") =>
         /\ UNCHANGED <<rotationSpeed, lastSpinFrameTime, spinToTimeEnd>>
         /\ Raised(raised', "spin") = <<>>
         /\ Raised(raised', "rest") = <<>>]_vars

\* In a drag with no other call in it, started at rotation 0 with the
\* pointer at angle 0, the rotation is the pointer's angle modulo a turn.
DragTracksPointer ==
    (isDragging /\ dragEvents # <<>>) =>
        (rotation - dragEvents[1].point) % FullTurn = 0

\* During a drag the history holds the pointer's last position.
DragKeepsLastPoint == isDragging => dragEvents # <<>>

----------------------------------------------------------------------------
\* History h is ordered newest first: its time stamps do not increase.
NewestFirst(h) == \A i \in 1..(Len(h) - 1) : h[i].now >= h[i + 1].now

(* C32: dragStart cancels the active session without raising onRest,       *)
(* leaves the rotation unchanged and resets the drag history to one entry  *)
(* of delta 0 at the start point, so that no move of an earlier drag is in *)
(* the history a later release sums; the history is ordered newest first,  *)
(* its time stamps not increasing.                                         *)
C32_DragStartResets ==
    [][/\ (IsCall /\ lastOp' = "dragStart") =>
            /\ IdleNext
            /\ rotationSpeed' = 0
            /\ raised' = <<>>
            /\ UNCHANGED <<rotation, currentIndex>>
            /\ Len(dragEvents') = 1
            /\ dragEvents'[1].distance = 0
            /\ dragEvents'[1].now = clock
            /\ isDragging'
       /\ NewestFirst(dragEvents')
       /\ (IsCall /\ lastOp' = "dragEnd") =>
            \A i \in 1..Len(dragEvents') : dragEvents'[i] \in
                {dragEvents[j] : j \in 1..Len(dragEvents)}]_vars

\* A dragStart that cancelled a timed-ease session on its way: the rotation
\* is between the session's start and end rotations, and stays there.
C32_Witness ==
    /\ lastOp = "dragStart"
    /\ Idle /\ rotationSpeed = 0
    /\ spinToTimeStart > 0
    /\ rotation # spinToStartRotation
    /\ rotation # spinToEndRotation
    /\ dragEvents = <<[distance |-> 0, point |-> 10000, now |-> clock]>>

----------------------------------------------------------------------------
(* One long drag on a wheel with debug on or off, and the same drag on a   *)
(* second wheel with debug off.                                            *)

\* The calls in one behaviour: dragStart, 40 moves and dragEnd.
CapCalls == 42
\* performance.now() stops advancing here (ms): inside the capture period.
CapMaxTime == 200
\* The pointer's travel between two moves.
CapSteps == {1000}

\* dragMove(point) at time now on a wheel with debug off whose history is h:
\* the history it leaves.
TwinDragMove(h, point, now) ==
    LET lastDragPoint == IF h = <<>> THEN OriginPoint ELSE h[1].point
        angleSinceLastMove == diffAngle(getAngleFromCenter(lastDragPoint),
                                        getAngleFromCenter(point))
    IN  <<[distance |-> angleSinceLastMove, point |-> point, now |-> now]>>
        \o h

\* dragEnd() at time now on that wheel, whose speed is speed: the speed it
\* leaves.
TwinDragEnd(h, speed, now) ==
    LET dragDistance == WindowSum(h, now)
    IN  IF dragDistance = 0 THEN speed
        ELSE limitSpeed(TruncDiv(dragDistance * MsPerSecond, dragCapturePeriod),
                        rotationSpeedMax)

CapInit ==
    \E dbg \in BOOLEAN :
        /\ ConstructedWheel(<<1, 1, 2>>, 0, 0, DefaultRotationResistance,
                            DefaultRotationSpeedMax, dbg)
        /\ turn = Null
        /\ announced = Null
        /\ frame = Null
        /\ pointers = Null
        /\ other = Some([dragEvents |-> <<>>, rotationSpeed |-> 0])

CapAdvance == AdvanceWithin(CapMaxTime)

CapDragStart ==
    /\ calls = 0
    /\ calls' = 1
    /\ DragStart(0)
    /\ other' = Some([dragEvents |-> dragEvents', rotationSpeed |-> 0])
    /\ UNCHANGED <<turn, announced, frame, pointers>>

CapDragMove ==
    \E step \in CapSteps :
    LET point == (dragEvents[1].point + step) % FullTurn
    IN  /\ calls \in 1..(CapCalls - 1)
        /\ calls' = calls + 1
        /\ DragMoveWithin(point, CapCalls)
        /\ other' = Some([Val(other) EXCEPT
                            !.dragEvents = TwinDragMove(@, point, clock)])
        /\ UNCHANGED <<turn, announced, frame, pointers>>

CapDragEnd ==
    /\ calls \in 1..(CapCalls - 1)
    /\ calls' = calls + 1
    /\ DragEnd
    /\ other' = Some([Val(other) EXCEPT
                        !.rotationSpeed =
                            TwinDragEnd(Val(other).dragEvents, @, clock)])
    /\ UNCHANGED <<turn, announced, frame, pointers>>

CapNext == CapAdvance \/ CapDragStart \/ CapDragMove \/ CapDragEnd

CapSpec == CapInit /\ [][CapNext]_vars

(* C33: the release velocity dragEnd computes is the same with debug on,   *)
(* where dragMove caps the history at 40 entries, as with debug off, for    *)
(* every sequence of moves, those with 40 or more moves inside the 250 ms   *)
(* window included.                                                        *)
C33_DebugSameVelocity ==
    lastOp = "dragEnd" => rotationSpeed = Val(other).rotationSpeed

\* The same for a drag of fewer than 40 moves.
ShortDragSameVelocity ==
    (lastOp = "dragEnd" /\ calls < CapCalls) =>
        rotationSpeed = Val(other).rotationSpeed

\* With debug off the wheel and the second wheel hold the same history.
TwinFollows ==
    ~debug => /\ dragEvents = Val(other).dragEvents
              /\ rotationSpeed = Val(other).rotationSpeed

----------------------------------------------------------------------------
(* Chained spins: an onRest handler that calls spin() or spinTo().         *)

\* props.rotationResistance
ChainResistances == {-200000}
\* The speed the handler gives spin().
ChainSpeeds == {30000}
\* performance.now() stops advancing here (ms).
ChainMaxTime == 600
\* The calls made from outside a handler in one behaviour.
ChainCalls == 2

\* The tick draw(now) makes is one that raises onRest.
RestingTick(now) ==
    IF spinToTimeEnd # Null THEN now >= Val(spinToTimeEnd)
    ELSE /\ lastSpinFrameTime # Null
         /\ now - Val(lastSpinFrameTime) > 0
         /\ getRotationSpeedPlusDrag(now - Val(lastSpinFrameTime)) = 0

\* The rotation animateRotation has set when it raises onRest.
RestingRotation(now) ==
    IF spinToTimeEnd # Null THEN spinToEndRotation
    ELSE rotation
         + JsMod(TruncDiv((now - Val(lastSpinFrameTime)) * rotationSpeed,
                          MsPerSecond), FullTurn)

\* draw(now) whose tick raises onRest, with a handler that calls
\* spin(speed): after the handler returns, the velocity-decay branch goes
\* on to set _lastSpinFrameTime = null; the timed-ease branch returns.
DrawRestThenSpin(now, speed) ==
    LET val == RestingRotation(now)
        limited == limitSpeed(speed, rotationSpeedMax)
    IN  /\ frameRequestId
        /\ RestingTick(now)
        /\ rotation' = val
        /\ currentIndex' = IndexAt(val)
        /\ spinToTimeEnd' = Null
        /\ rotationSpeed' = limited
        /\ rotationDirection' = IF limited >= 0 THEN 1 ELSE -1
        /\ lastSpinFrameTime' = IF spinToTimeEnd # Null THEN Some(clock)
                                                        ELSE Null
        /\ dragEvents' = <<>>
        /\ raised' = IndexEvents(val) \o <<OnRest(IndexAt(val), val)>>
                     \o IF limited # 0 THEN <<OnSpin("spin")>> ELSE <<>>
        /\ frameRequestId' = TRUE
        /\ isInitialising' = FALSE
        /\ lastOp' = "draw"
        /\ target' = Null
        /\ turn' = TurnAfter(raised')
        /\ announced' = NoticeAfter(raised')
        /\ frame' = FrameAfterDraw
        /\ UNCHANGED pointers
        /\ UNCHANGED <<config, spinToVars, isDragging, clock, calls, other>>

\* The same with a handler that calls spinTo(newRotation, duration).
DrawRestThenSpinTo(now, newRotation, duration) ==
    LET val == RestingRotation(now)
    IN  /\ frameRequestId
        /\ RestingTick(now)
        /\ rotation' = val
        /\ currentIndex' = IndexAt(val)
        /\ rotationSpeed' = 0
        /\ lastSpinFrameTime' = Null
        /\ dragEvents' = <<>>
        /\ spinToStartRotation' = val
        /\ spinToEndRotation' = newRotation
        /\ spinToTimeStart' = clock
        /\ spinToTimeEnd' = Some(clock + duration)
        /\ spinToEasingFunction' = "easeSinOut"
        /\ raised' = IndexEvents(val) \o <<OnRest(IndexAt(val), val)>>
                     \o <<OnSpin("spinto")>>
        /\ frameRequestId' = TRUE
        /\ isInitialising' = FALSE
        /\ lastOp' = "draw"
        /\ target' = Null
        /\ turn' = TurnAfter(raised')
        /\ announced' = NoticeAfter(raised')
        /\ frame' = FrameAfterDraw
        /\ UNCHANGED pointers
        /\ UNCHANGED <<config, rotationDirection, isDragging, clock, calls,
                       other>>

ChainInit ==
    \E resistance \in ChainResistances :
        Constructed(<<1, 1, 2>>, 0, 0, resistance, DefaultRotationSpeedMax,
                    FALSE)

ChainAdvance == AdvanceWithin(ChainMaxTime)
ChainSpin == \E speed \in ChainSpeeds : CallWithin(Spin(speed), ChainCalls)
ChainSpinTo == CallWithin(SpinTo(370000, 200, "null"), ChainCalls)
ChainDraw == \E now \in FrameTimes : Draw(now)
ChainDrawThenSpin ==
    \E now \in FrameTimes, speed \in ChainSpeeds : DrawRestThenSpin(now, speed)
ChainDrawThenSpinTo ==
    \E now \in FrameTimes : DrawRestThenSpinTo(now, 370000, 200)

ChainNext ==
    \/ ChainAdvance
    \/ ChainSpin
    \/ ChainSpinTo
    \/ ChainDraw
    \/ ChainDrawThenSpin
    \/ ChainDrawThenSpinTo

ChainSpec == ChainInit /\ [][ChainNext]_vars

\* The step is a tick whose onRest handler started a spin.
Chained ==
    /\ IsTick
    /\ Raised(raised', "rest") # <<>>
    /\ Raised(raised', "spin") # <<>>

(* C34: a spin() or spinTo() call made from inside an onRest handler starts *)
(* a session that is active after the handler returns, whether the session *)
(* that rested was a velocity-decay or a timed-ease one; after the handler *)
(* returns a rotation speed other than 0 belongs to an active velocity-    *)
(* decay session.                                                          *)
C34_ChainedSpinRuns ==
    [][/\ Chained => ~IdleNext
       /\ rotationSpeed' # 0 => SpinActiveNext]_vars

\* The same for the chains the code runs: after a timed-ease session, and
\* with spinTo() after either.
ChainedAfterEase ==
    [][(Chained /\ (SpinToActive \/ SpinToActiveNext)) =>
         /\ ~IdleNext
         /\ rotationSpeed' # 0 => SpinActiveNext]_vars

\* A chained spin() after a velocity-decay session leaves no session.
ChainedSpinAfterDecayIsLost ==
    [][(Chained /\ SpinActive /\ ~SpinToActiveNext) =>
         (IdleNext /\ rotationSpeed' # 0)]_vars

----------------------------------------------------------------------------
(* The notifications of a wheel in order, over spins of any speed and a    *)
(* maximum speed of 0.                                                     *)

\* props.rotationSpeedMax
NoticeSpeedMaxes == {DefaultRotationSpeedMax, 0}
\* spin's rotationSpeed
NoticeSpeeds == {0, 30000}
\* performance.now() stops advancing here (ms).
NoticeMaxTime == 400
\* The calls in one behaviour.
NoticeCalls == 3

NoticeInit ==
    \E speedMax \in NoticeSpeedMaxes :
        /\ ConstructedWheel(<<1, 1, 2>>, 0, 0, -200000, speedMax, FALSE)
        /\ turn = Null
        /\ other = Null
        /\ announced = Some(FALSE)
        /\ frame = Null
        /\ pointers = Null

NoticeAdvance == AdvanceWithin(NoticeMaxTime)
NoticeSpin == \E speed \in NoticeSpeeds : CallWithin(Spin(speed), NoticeCalls)
NoticeSpinTo == CallWithin(SpinTo(370000, 200, "null"), NoticeCalls)
NoticeStop == CallWithin(Stop, NoticeCalls)
NoticeDragStart == CallWithin(DragStart(0), NoticeCalls)
NoticeDragMove == CallWithin(DragMove(10000), NoticeCalls)
NoticeDragEnd == CallWithin(DragEnd, NoticeCalls)
NoticeDraw == \E now \in FrameTimes : Draw(now)

NoticeNext ==
    \/ NoticeAdvance
    \/ NoticeSpin
    \/ NoticeSpinTo
    \/ NoticeStop
    \/ NoticeDragStart
    \/ NoticeDragMove
    \/ NoticeDragEnd
    \/ NoticeDraw

NoticeSpec == NoticeInit /\ [][NoticeNext]_vars

RECURSIVE RestsAnnounced(_, _)
\* Every onRest among the notifications events comes after an onSpin raised
\* since the onRest before it, given whether one had been raised before them.
RestsAnnounced(before, events) ==
    \/ events = <<>>
    \/ /\ Head(events).type = "rest" => before
       /\ RestsAnnounced(NoticeFold(before, <<Head(events)>>), Tail(events))

(* C35: notifications are paired: every onRest is preceded by an onSpin    *)
(* raised since the previous onRest or since construction, for any         *)
(* argument of spin(), 0 included, and any rotationSpeedMax, 0 included.   *)
C35_RestAfterSpin ==
    [][(IsCall \/ IsTick) => RestsAnnounced(Val(announced), raised')]_vars

\* The same for the sessions that start with a speed other than 0 and for
\* the timed-ease sessions: an onRest with no onSpin before it ends a
\* velocity-decay session of speed 0.
AnnouncedUnlessStill ==
    [][((IsCall \/ IsTick) /\ ~(SpinActive /\ rotationSpeed = 0)) =>
         RestsAnnounced(Val(announced), raised')]_vars

----------------------------------------------------------------------------
(* The pointer angle: wheels constructed with one, and assignments to it.  *)

\* props.items
PointerItemLists == {<<1, 1, 2>>, <<1, 1, 1, 1>>}
\* props.rotation and the values assigned to rotation
PointerRotations == {0, 100000}
\* props.pointerAngle and the values assigned to pointerAngle
PointerValues == {0, 90000, 200000, 450000}
\* The calls in one behaviour.
PointerCalls == 3

PointerInit ==
    \E w \in PointerItemLists, rot \in PointerRotations,
       pointer \in PointerValues :
        Constructed(w, rot, pointer, DefaultRotationResistance,
                    DefaultRotationSpeedMax, FALSE)

PointerSetPointerAngle ==
    \E p \in PointerValues :
        CallWithin(SetPointerAngle(Value(p)), PointerCalls)
PointerSetRotation ==
    \E v \in PointerRotations : CallWithin(SetRotation(Value(v)), PointerCalls)
PointerDraw == \E now \in FrameTimes : Draw(now)

PointerNext ==
    \/ Advance
    \/ PointerSetPointerAngle
    \/ PointerSetRotation
    \/ PointerDraw

PointerSpec == PointerInit /\ [][PointerNext]_vars

\* The current index is the slice under the pointer angle in force.
IndexUnderPointer ==
    SlicesUnderPointer(items, rotation, pointerAngle) = {currentIndex + 1}

(* C36: getCurrentIndex() is consistent with the pointer angle in force:   *)
(* after a wheel is constructed with items and a pointerAngle other than   *)
(* 0, and after any later assignment to pointerAngle, the current index is *)
(* the slice under the new pointer angle, with no further rotation change. *)
C36_IndexFollowsPointer ==
    lastOp \in {"new", "pointerAngle"} => IndexUnderPointer

\* The current index is the slice under the pointer angle after an
\* assignment to rotation, and in a wheel constructed with pointerAngle 0.
IndexFollowsRotation ==
    /\ lastOp = "rotation" => IndexUnderPointer
    /\ (lastOp = "new" /\ pointerAngle = 0) => IndexUnderPointer

\* The pointerAngle setter leaves the current index as it is.
PointerAngleKeepsIndex ==
    [][(IsCall /\ lastOp' = "pointerAngle") => currentIndex' = currentIndex]_vars

----------------------------------------------------------------------------
(* The animation frames: the callbacks the browser holds against the       *)
(* wheel's _frameRequestId, with remove() and add().                       *)

\* performance.now() stops advancing here (ms).
FrameMaxTime == 300
\* The calls in one behaviour.
FrameCalls == 4

\* refresh()
Refresh ==
    /\ frameRequestId' = TRUE
    /\ raised' = <<>>
    /\ lastOp' = "refresh"
    /\ UNCHANGED <<config, rotation, currentIndex, rotationSpeed,
                   rotationDirection, lastSpinFrameTime, spinToTimeEnd,
                   spinToVars, dragEvents, isDragging, isInitialising, clock,
                   target>>

\* remove(): cancelAnimationFrame(this._frameRequestId), and nothing is
\* assigned to _frameRequestId.
Remove ==
    /\ raised' = <<>>
    /\ lastOp' = "remove"
    /\ UNCHANGED <<config, rotation, currentIndex, rotationSpeed,
                   rotationDirection, lastSpinFrameTime, spinToTimeEnd,
                   spinToVars, dragEvents, isDragging, isInitialising,
                   frameRequestId, clock, target>>

\* add(container) after the constructor: resize(), which ends in refresh(),
\* once a frame has been drawn.
Add ==
    /\ frameRequestId' = (frameRequestId \/ ~isInitialising)
    /\ raised' = <<>>
    /\ lastOp' = "add"
    /\ UNCHANGED <<config, rotation, currentIndex, rotationSpeed,
                   rotationDirection, lastSpinFrameTime, spinToTimeEnd,
                   spinToVars, dragEvents, isDragging, isInitialising, clock,
                   target>>

FrameInit ==
    /\ ConstructedWheel(<<1, 1, 2>>, 0, 0, -200000, DefaultRotationSpeedMax,
                        FALSE)
    /\ turn = Null
    /\ other = Null
    /\ announced = Null
    /\ frame = Some([pending |-> 1, added |-> TRUE])
    /\ pointers = Null

\* A call of a method of a wheel that is in its container.
FrameCall(op) == Val(frame).added /\ CallWithin(op, FrameCalls)

FrameAdvance == AdvanceWithin(FrameMaxTime)
\* The browser runs a callback it holds.
FrameDraw == \E now \in FrameTimes : Val(frame).pending > 0 /\ Draw(now)
FrameSpin == FrameCall(Spin(30000))
FrameSpinTo == FrameCall(SpinTo(370000, 200, "null"))
FrameStop == FrameCall(Stop)
FrameDragStart == FrameCall(DragStart(0))
FrameDragMove == FrameCall(DragMove(10000))
FrameDragEnd == FrameCall(DragEnd)
FrameSetRotation == FrameCall(SetRotation(Value(100000)))
FrameSetPointerAngle == FrameCall(SetPointerAngle(Value(90000)))
FrameRefresh == FrameCall(Refresh)

FrameRemove ==
    /\ Val(frame).added
    /\ calls < FrameCalls
    /\ calls' = calls + 1
    /\ Remove
    /\ frame' = Some([pending |-> IF frameRequestId /\ Val(frame).pending > 0
                                  THEN Val(frame).pending - 1
                                  ELSE Val(frame).pending,
                      added |-> FALSE])
    /\ UNCHANGED <<turn, other, announced, pointers>>

FrameAdd ==
    /\ ~Val(frame).added
    /\ calls < FrameCalls
    /\ calls' = calls + 1
    /\ Add
    /\ frame' = Some([pending |-> Val(frame).pending
                                  + IF ~frameRequestId /\ frameRequestId'
                                    THEN 1 ELSE 0,
                      added |-> TRUE])
    /\ UNCHANGED <<turn, other, announced, pointers>>

FrameNext ==
    \/ FrameAdvance
    \/ FrameDraw
    \/ FrameSpin
    \/ FrameSpinTo
    \/ FrameStop
    \/ FrameDragStart
    \/ FrameDragMove
    \/ FrameDragEnd
    \/ FrameSetRotation
    \/ FrameSetPointerAngle
    \/ FrameRefresh
    \/ FrameRemove
    \/ FrameAdd

FrameSpec == FrameInit /\ [][FrameNext]_vars

(* C37: at most one animation-frame callback is pending at any time,       *)
(* however many refresh() calls, property assignments, spin calls and drag *)
(* moves occur between two frames; each frame callback runs draw(), and so *)
(* one tick, once: it takes one callback from those pending.               *)
C37_OnePendingFrame ==
    [][/\ Val(frame').pending <= 1
       /\ IsTick => /\ Val(frame).pending = 1
                    /\ Val(frame').pending = IF frameRequestId' THEN 1 ELSE 0]_vars

\* Four calls that refresh since construction and no frame drawn between
\* them: one callback is pending.
C37_Witness ==
    /\ isInitialising
    /\ calls = FrameCalls
    /\ lastOp = "refresh"
    /\ SpinActive
    /\ isDragging
    /\ Val(frame).pending = 1

\* A callback the browser holds is the one _frameRequestId names.
FramePendingHasId == Val(frame).pending > 0 => frameRequestId

(* C38: animation never stalls: whenever _frameRequestId is non-null a     *)
(* frame callback is really pending, so that while a session is active a   *)
(* further tick is scheduled and a refresh() is followed by a draw(), also *)
(* after remove() followed by add() while a frame was pending.             *)
C38_FrameReallyPending ==
    (Val(frame).added /\ frameRequestId) => Val(frame).pending > 0

\* After remove() and add() a session is active and no tick is scheduled.
SessionHasFrame ==
    (Val(frame).added /\ ~Idle) => Val(frame).pending > 0

\* Every step other than remove() keeps a callback pending while
\* _frameRequestId is non-null.
FrameKeptPending ==
    [][(lastOp' # "remove" /\ (frameRequestId => Val(frame).pending > 0)) =>
         (frameRequestId' => Val(frame').pending > 0)]_vars

----------------------------------------------------------------------------
(* The pointer events of the canvas: every pointerdown on the wheel calls  *)
(* dragStart and makes two new closures, onPointerMove and onPointerUp,    *)
(* listeners of the canvas; a pointerup, pointercancel or pointerout runs  *)
(* every onPointerUp that is a listener.                                   *)

\* The pointers that may be down together.
EventMaxPointers == 2
\* The events in one behaviour.
EventCalls == 4
\* The points of the pointer, named by their angles.
EventPoints == {0, 10000}
\* The events onPointerUp is a listener of.
EventUpTypes == {"pointerup", "pointercancel", "pointerout"}
\* performance.now() stops advancing here (ms).
EventMaxTime == 200

\* A sequence of n copies of e.
Copies(n, e) == [i \in 1..n |-> e]

\* The dispatch of one event to the listeners of the canvas.
EventCall(op) ==
    /\ calls < EventCalls
    /\ calls' = calls + 1
    /\ op
    /\ turn' = TurnAfter(raised')
    /\ announced' = NoticeAfter(raised')
    /\ frame' = FrameAfterCall
    /\ UNCHANGED other

\* pointerdown on the wheel: _handler_onPointerDown.
PointerDown(point) ==
    /\ Val(pointers).listeners < EventMaxPointers
    /\ EventCall(DragStart(point))
    /\ pointers' = Some([listeners |-> Val(pointers).listeners + 1,
                         log |-> Append(Val(pointers).log, "dragStart")])

\* pointermove: every onPointerMove that is a listener calls
\* dragMove(point); after the first, the pointer has not moved.
PointerMove(point) ==
    LET n == Val(pointers).listeners
        a == getAngleFromCenter(point)
        lastDragPoint == IF dragEvents = <<>> THEN OriginPoint
                                              ELSE dragEvents[1].point
        angleSinceLastMove == diffAngle(getAngleFromCenter(lastDragPoint), a)
        val == rotation + angleSinceLastMove
    IN  /\ n > 0
        /\ ~debug
        /\ Len(dragEvents) < MaxDragEvents
        /\ EventCall(
             /\ dragEvents' =
                  Copies(n - 1, [distance |-> 0, point |-> point, now |-> clock])
                  \o <<[distance |-> angleSinceLastMove, point |-> point,
                        now |-> clock]>>
                  \o dragEvents
             /\ rotation' = val
             /\ currentIndex' = IndexAt(val)
             /\ raised' = IndexEvents(val)
             /\ frameRequestId' = TRUE
             /\ lastOp' = "dragMove"
             /\ UNCHANGED <<config, rotationSpeed, rotationDirection,
                            lastSpinFrameTime, spinToTimeEnd, spinToVars,
                            isDragging, isInitialising, clock, target>>)
        /\ UNCHANGED pointers

\* pointerup, pointercancel or pointerout: every onPointerUp that is a
\* listener removes itself and its onPointerMove and calls dragEnd(); each
\* dragEnd() sums the same history at the same time.
PointerUp(type) ==
    LET n == Val(pointers).listeners
        kept == FreshCount(clock)
        dragDistance == SumDistance(dragEvents, kept)
        limited == limitSpeed(TruncDiv(dragDistance * MsPerSecond,
                                       dragCapturePeriod), rotationSpeedMax)
    IN  /\ n > 0
        /\ EventCall(
             /\ isDragging' = FALSE
             /\ dragEvents' = SubSeq(dragEvents, 1, kept)
             /\ lastOp' = type
             /\ UNCHANGED <<config, rotation, currentIndex, spinToVars,
                            isInitialising, clock>>
             /\ IF dragDistance = 0
                THEN /\ frameRequestId' =
                          (frameRequestId \/ (kept < Len(dragEvents) /\ debug))
                     /\ raised' = <<>>
                     /\ UNCHANGED <<rotationSpeed, rotationDirection,
                                    lastSpinFrameTime, spinToTimeEnd, target>>
                ELSE /\ spinToTimeEnd' = Null
                     /\ rotationSpeed' = limited
                     /\ lastSpinFrameTime' = Some(clock)
                     /\ rotationDirection' = IF limited >= 0 THEN 1 ELSE -1
                     /\ raised' = IF limited # 0
                                  THEN Copies(n, OnSpin("interact"))
                                  ELSE <<>>
                     /\ frameRequestId' = TRUE
                     /\ target' = Null)
        /\ pointers' = Some([listeners |-> 0,
                             log |-> Val(pointers).log \o Copies(n, "dragEnd")])

EventInit ==
    /\ ConstructedWheel(<<1, 1, 2>>, 0, 0, DefaultRotationResistance,
                        DefaultRotationSpeedMax, FALSE)
    /\ turn = Null
    /\ other = Null
    /\ announced = Null
    /\ frame = Null
    /\ pointers = Some([listeners |-> 0, log |-> <<>>])

EventAdvance == AdvanceWithin(EventMaxTime)
EventPointerDown == \E p \in EventPoints : PointerDown(p)
EventPointerMove == \E p \in EventPoints : PointerMove(p)
EventPointerUp == \E type \in EventUpTypes : PointerUp(type)
EventDraw == \E now \in FrameTimes : Draw(now)

EventNext ==
    \/ EventAdvance
    \/ EventPointerDown
    \/ EventPointerMove
    \/ EventPointerUp
    \/ EventDraw

EventSpec == EventInit /\ [][EventNext]_vars

\* The calls of log alternate, a dragStart first.
Alternating(log) ==
    \A i \in 1..Len(log) :
        log[i] = IF i % 2 = 1 THEN "dragStart" ELSE "dragEnd"

(* C39: in the pointer-event wiring dragStart and dragEnd strictly         *)
(* alternate: every dragEnd is preceded by exactly one dragStart with no   *)
(* dragEnd in between, and one gesture starts at most one 'interact' spin, *)
(* for every interleaving of the pointer events, a second pointer going    *)
(* down while the first is dragging included.                              *)
C39_DragCallsAlternate ==
    [][/\ Alternating(Val(pointers').log)
       /\ Len(Raised(raised', "spin")) <= 1]_vars

\* While one pointer at a time is down, the calls alternate and a release
\* raises one onSpin at most.
OnePointerAlternates ==
    [][(\A i \in 1..(Len(Val(pointers').log) - 1) :
            ~(Val(pointers').log[i] = "dragStart"
              /\ Val(pointers').log[i + 1] = "dragStart")) =>
         /\ Alternating(Val(pointers').log)
         /\ Len(Raised(raised', "spin")) <= 1]_vars

====
